---- MODULE Spec2Model ----
(***************************************************************************)
(* PocketBot (cmd/pb): the session supervisor.  The model follows          *)
(* src/cmd/pb/main.go (first program in the file, lines 1-1583): the       *)
(* bubbletea model `m`, its key and tick handlers, and the outer loop of   *)
(* main() that alternates between the UI and `tmux attach`.  The tmux      *)
(* server is the record `tmux` (live sessions and the cwd option stored    *)
(* with each of them).                                                     *)
(*                                                                         *)
(* Session names are pairs <<base, n>>: <<"codex", 0>> is "codex" and      *)
(* <<"codex", 2>> is "codex-2".  Notices are kept by their format string.  *)
(* The view-only fields of the model (windowWidth, taskCounts,             *)
(* taskCommands, taskRefreshAt) and the per-session activity state are     *)
(* not read by any handler and are left out of this state machine.         *)
(***************************************************************************)
EXTENDS Integers, Sequences, FiniteSets, TLC

\* ------------------------------------------------------------------ bounds
MaxLive == 2
MaxTasks == 1
MaxQuery == 1
BigN == 28
MaxQuiet == 10
MaxIdleFor == 400

\* --------------------------------------------------------------- constants
Tools == {"claude", "codex", "cursor"}

pickerChars ==
  <<"a", "b", "c", "d", "e", "f", "g", "h", "i", "j", "k", "l", "m",
    "n", "o", "p", "q", "r", "s", "t", "u", "v", "w", "x", "y", "z">>

maxKeys == 26

Dirs == {"/a", "/b"}

NoName == <<"", 0>>

\* ------------------------------------------------------------------- names
ToolNames == {<<"claude", 0>>, <<"codex", 0>>, <<"codex", 2>>, <<"cursor", 0>>}

CustomNames == {<<"dev", 0>>}

Names == ToolNames \cup CustomNames

\* alphabetical rank of the bases (none is a prefix of another)
BaseRank(b) ==
  CASE b = "claude" -> 1
    [] b = "codex" -> 2
    [] b = "cursor" -> 3
    [] OTHER -> 4

\* the decimal digits of a suffix below 1000, padded on the right to three
\* places, then their number: the order of these keys is the byte-wise
\* order of the digit strings ("2" < "20" < "21" < "3")
DecKey(n) ==
  IF n < 10 THEN n * 400 + 1
  ELSE IF n < 100 THEN n * 40 + 2
  ELSE n * 4 + 3

\* byte-wise order of the rendered names, as sort.Strings sees them: the
\* base, then the bare name before the suffixed ones
NameKey(a) == BaseRank(a[1]) * 10000 + (IF a[2] = 0 THEN 0 ELSE DecKey(a[2]))

NameLess(a, b) == NameKey(a) < NameKey(b)

\* sort.Strings: each name at the position given by the names below it
\* (T and below are bound variables, so that each is evaluated once)
SortNames(S) ==
  CHOOSE s \in UNION {{[i \in 1..Cardinality(T) |-> CHOOSE x \in T : below[x] = i - 1] :
                         below \in {[x \in T |-> Cardinality({y \in T : NameLess(y, x)})]}} :
                      T \in {S}} : TRUE

Range(s) == {s[i] : i \in 1..Len(s)}

\* ------------------------------------------------------------------ config
DefaultConfig ==
  [Enabled |-> [t \in Tools |-> TRUE],
   Key |-> [t \in Tools |-> CASE t = "claude" -> "c" [] t = "codex" -> "x" [] OTHER -> "u"],
   Sessions |-> {}]

Configs ==
  { DefaultConfig,
    [DefaultConfig EXCEPT !.Enabled["cursor"] = FALSE],
    [DefaultConfig EXCEPT !.Key["cursor"] = "r"],
    [DefaultConfig EXCEPT !.Sessions = {[Name |-> <<"dev", 0>>, Key |-> "v"]}] }

Validate(c) ==
  /\ \A t1, t2 \in Tools :
       (t1 # t2 /\ c.Enabled[t1] /\ c.Enabled[t2]) => c.Key[t1] # c.Key[t2]
  /\ \A s \in c.Sessions :
       /\ \A t \in Tools : c.Enabled[t] => c.Key[t] # s.Key
       /\ \A s2 \in c.Sessions : s2 # s => s2.Key # s.Key

AllSessions(c) ==
  {<<t, 0>> : t \in {u \in Tools : c.Enabled[u]}} \cup {s.Name : s \in c.Sessions}

VARIABLES cfg, m, tmux, cwd, log, lastOp, pc, uiRunning, quitPending, attached

vars == <<cfg, m, tmux, cwd, log, lastOp, pc, uiRunning, quitPending, attached>>

\* ------------------------------------------------------- tmux (the adapter)
\* the handlers run on a world w = [m, tmux, cwd, log, attach, quit]: log
\* collects the tmux commands and signals the handler issues, attach is the
\* session whose tmux client holds the terminal, quit is the tea.Quit
\* command returned by the handler
World == [m |-> m, tmux |-> tmux, cwd |-> cwd,
          log |-> [cmds |-> {}, signals |-> <<>>], attach |-> attached,
          quit |-> FALSE]

Logged(w, op, name) == [w EXCEPT !.log.cmds = @ \cup {<<op, name>>}]

SessionExists(w, name) == name \in w.tmux.live

GetSessionCwd(w, name) == IF name \in w.tmux.live THEN w.tmux.cwdOpt[name] ELSE ""

\* new-session fails on a duplicate name; "partial" is a new-session that
\* succeeded followed by a failing set-option or bind-key
CreateSession(w, name, outcome) ==
  LET w1 == Logged(w, "create", name)
      made == [w1 EXCEPT !.tmux.live = @ \cup {name},
                         !.tmux.cwdOpt = [n \in (DOMAIN @) \cup {name} |->
                                            IF n = name THEN w.cwd ELSE @[n]]]
  IN IF name \in w.tmux.live \/ outcome = "fail" THEN [w |-> w1, err |-> TRUE]
     ELSE IF outcome = "partial" THEN [w |-> made, err |-> TRUE]
     ELSE [w |-> made, err |-> FALSE]

Removed(w, gone) ==
  [w EXCEPT !.tmux.live = @ \ gone,
            !.tmux.cwdOpt = [n \in (DOMAIN @) \ gone |-> @[n]]]

KillSession(w, name, outcome) ==
  LET w1 == Logged(w, "kill", name)
  IN IF name \notin w.tmux.live \/ outcome = "fail" THEN [w |-> w1, err |-> TRUE]
     ELSE [w |-> Removed(w1, {name}), err |-> FALSE]

KillServer(w) == Removed(Logged(w, "kill-server", NoName), w.tmux.live)

\* ---------------------------------------------------------------- model m
EmptyBindings == [n \in {} |-> [Cwd |-> "", Running |-> TRUE]]

EmptyTargets == [k \in {} |-> NoName]

EmptyTaskTargets == [k \in {} |-> [Session |-> NoName, PID |-> 0]]

IsRunning(w, name) == SessionExists(w, name)

initialModel(c, live, fasder) ==
  [sessions |-> AllSessions(c) \cup live,
   bindings |-> EmptyBindings,
   showTaskDetails |-> FALSE,
   taskKillTargets |-> EmptyTaskTargets,
   mode |-> "modeHome",
   pickerTool |-> "",
   pickerTargets |-> EmptyTargets,
   shouldAttach |-> FALSE,
   sessionToAttach |-> NoName,
   homeNotice |-> "",
   dirQuery |-> <<>>,
   dirSuggestions |-> <<>>,
   dirSelection |-> 0,
   hasFasder |-> fasder]

currentDir(w, in) == IF in.getwd THEN w.cwd ELSE ""

\* a refresh that writes the bindings of the running sessions and drops none
refreshBindingsNoDrop(w) ==
  LET running == {n \in w.m.sessions : IsRunning(w, n)}
  IN [w EXCEPT !.m.bindings =
        [n \in running \cup DOMAIN @ |->
           IF n \in running THEN [Cwd |-> GetSessionCwd(w, n), Running |-> TRUE]
           ELSE @[n]]]

refreshBindings(w) ==
  LET running == {n \in w.m.sessions : IsRunning(w, n)}
  IN [w EXCEPT !.m.bindings =
        [n \in running |-> [Cwd |-> GetSessionCwd(w, n), Running |-> TRUE]]]

toolFromSessionName(name) == IF name[1] \in Tools THEN name[1] ELSE ""

pickerKey(i) == IF i < 0 \/ i >= Len(pickerChars) THEN "" ELSE pickerChars[i + 1]

runningToolSessions(w, tool) ==
  SortNames({n \in w.m.sessions : toolFromSessionName(n) = tool /\ IsRunning(w, n)})

toolSessionsInDir(w, tool, dir) ==
  SortNames({n \in DOMAIN w.m.bindings :
               /\ toolFromSessionName(n) = tool
               /\ w.m.bindings[n].Running
               /\ w.m.bindings[n].Cwd = dir})

toolAlreadyRunningTwiceInDir(w, tool, dir) == Len(toolSessionsInDir(w, tool, dir)) > 1

toolAlreadyRunningInDir(w, tool, dir) == Len(toolSessionsInDir(w, tool, dir)) > 0

\* the commands of the three tools are never empty after config.Load
commandForTool(tool) == IF tool \in Tools THEN "tool-command" ELSE ""

Max(S) == CHOOSE x \in S : \A y \in S : y <= x

\* the suffix taken from the number of running sessions
nextSessionNameByCount(w, tool) ==
  LET used == Range(runningToolSessions(w, tool))
  IN IF <<tool, 0>> \notin used THEN <<tool, 0>> ELSE <<tool, Cardinality(used) + 1>>

nextSessionName(w, tool) ==
  LET used == Range(runningToolSessions(w, tool))
      max == Max({1} \cup {n[2] : n \in {u \in used : u[2] # 0}})
  IN IF <<tool, 0>> \notin used THEN <<tool, 0>> ELSE <<tool, max + 1>>

\* for i, name := range names { targets[pickerKey(i)] = name }
\* a later name replaces an earlier one under the same key
TargetsOf(names, limit) ==
  CHOOSE t \in {[k \in {pickerKey(i - 1) : i \in 1..limit} |->
                   IF k = "" THEN ns[limit]
                   ELSE ns[CHOOSE i \in 1..Len(pickerChars) : pickerChars[i] = k]] :
                ns \in {names}} : TRUE

Min(a, b) == IF a < b THEN a ELSE b

maxSuggestions == 9

SubSeqTo(s, n) == IF Len(s) > n THEN SubSeq(s, 1, n) ELSE s

\* the list taken whole, however long the answer of the lookup
refreshDirSuggestionsUncapped(w, in) ==
  IF in.lookup.err THEN [w EXCEPT !.m.dirSuggestions = <<>>]
  ELSE LET suggestions == in.lookup.dirs
           n == Len(suggestions)
       IN [w EXCEPT !.m.dirSuggestions = suggestions,
                    !.m.dirSelection = IF n = 0 THEN 0
                                       ELSE IF @ >= n THEN n - 1 ELSE @]

refreshDirSuggestions(w, in) ==
  IF in.lookup.err THEN [w EXCEPT !.m.dirSuggestions = <<>>]
  ELSE LET suggestions == SubSeqTo(in.lookup.dirs, maxSuggestions)
           n == Len(suggestions)
       IN [w EXCEPT !.m.dirSuggestions = suggestions,
                    !.m.dirSelection = IF n = 0 THEN 0
                                       ELSE IF @ >= n THEN n - 1 ELSE @]

applyDirChange(w, target, in) ==
  IF ~in.chdir THEN [w EXCEPT !.m.homeNotice = "cd failed: %v"]
  ELSE [w EXCEPT !.cwd = target,
                 !.m.mode = "modeHome",
                 !.m.homeNotice = "",
                 !.m.dirQuery = <<>>,
                 !.m.dirSuggestions = <<>>,
                 !.m.dirSelection = 0]

\* the abandoned in-UI attach (viewAttached): the handler attaches itself
startAndAttachSessionInUI(w, name, command, in) ==
  LET w1 == [w EXCEPT !.m.sessions = @ \cup {name}]
      cmd1 == IF command = "" THEN commandForTool(toolFromSessionName(name)) ELSE command
  IN IF ~IsRunning(w1, name) /\ cmd1 = ""
       THEN [w1 EXCEPT !.m.homeNotice = "session %s is not running"]
     ELSE LET r == IF IsRunning(w1, name) THEN [w |-> w1, err |-> FALSE]
                   ELSE CreateSession(w1, name, in.create)
          IN IF r.err THEN [r.w EXCEPT !.m.homeNotice = "failed to start %s: %v"]
             ELSE [refreshBindings(r.w) EXCEPT !.m.shouldAttach = TRUE,
                                               !.m.sessionToAttach = name,
                                               !.m.homeNotice = "",
                                               !.m.mode = "modeHome",
                                               !.attach = name]

startAndAttachSession(w, name, command, in) ==
  LET w1 == [w EXCEPT !.m.sessions = @ \cup {name}]
      cmd1 == IF command = "" THEN commandForTool(toolFromSessionName(name)) ELSE command
  IN IF ~IsRunning(w1, name) /\ cmd1 = ""
       THEN [w1 EXCEPT !.m.homeNotice = "session %s is not running"]
     ELSE LET r == IF IsRunning(w1, name) THEN [w |-> w1, err |-> FALSE]
                   ELSE CreateSession(w1, name, in.create)
          IN IF r.err THEN [r.w EXCEPT !.m.homeNotice = "failed to start %s: %v"]
             ELSE [refreshBindings(r.w) EXCEPT !.m.shouldAttach = TRUE,
                                               !.m.sessionToAttach = name,
                                               !.m.homeNotice = "",
                                               !.m.mode = "modeHome",
                                               !.quit = TRUE]

requestAttachSession(w, name) ==
  [w EXCEPT !.m.shouldAttach = TRUE,
            !.m.sessionToAttach = name,
            !.m.homeNotice = "",
            !.m.mode = "modeHome",
            !.quit = TRUE]

\* creation without the look at the sessions of the directory
createAndAttachToolAlways(w, tool, in) ==
  IF commandForTool(tool) = ""
    THEN [w EXCEPT !.m.homeNotice = "%s is not configured"]
  ELSE LET name == nextSessionName(w, tool)
           r == CreateSession(w, name, in.create)
       IN IF r.err THEN [r.w EXCEPT !.m.homeNotice = "failed to create %s: %v"]
          ELSE startAndAttachSession([r.w EXCEPT !.m.sessions = @ \cup {name}],
                                     name, commandForTool(tool), in)

createAndAttachTool(w, tool, in) ==
  LET dir == currentDir(w, in)
      inDir == toolSessionsInDir(w, tool, dir)
  IN IF dir # "" /\ Len(inDir) = 1 THEN requestAttachSession(w, inDir[1])
     ELSE IF dir # "" /\ Len(inDir) > 1
       THEN [w EXCEPT !.m.mode = "modePickAttach",
                      !.m.pickerTool = tool,
                      !.m.pickerTargets = TargetsOf(inDir, Len(inDir)),
                      !.m.homeNotice = "session already running in this directory"]
     ELSE IF commandForTool(tool) = ""
       THEN [w EXCEPT !.m.homeNotice = "%s is not configured"]
     ELSE LET name == nextSessionName(w, tool)
              r == CreateSession(w, name, in.create)
          IN IF r.err THEN [r.w EXCEPT !.m.homeNotice = "failed to create %s: %v"]
             ELSE startAndAttachSession([r.w EXCEPT !.m.sessions = @ \cup {name}],
                                        name, commandForTool(tool), in)

preparePicker(w, tool, pickMode) ==
  LET targets == runningToolSessions(w, tool)
      limit == Min(Len(targets), maxKeys)
  IN [w EXCEPT !.m.mode = pickMode,
               !.m.pickerTool = tool,
               !.m.pickerTargets = TargetsOf(targets, limit),
               !.m.homeNotice = IF Len(targets) > maxKeys
                                THEN "showing first 26 sessions" ELSE ""]

\* the choice by the number of running sessions alone
handleToolAttachByCount(w, tool, in) ==
  LET targets == runningToolSessions(w, tool)
  IN IF Len(targets) = 0 THEN createAndAttachTool(w, tool, in)
     ELSE IF Len(targets) = 1 THEN startAndAttachSession(w, targets[1], "", in)
     ELSE preparePicker(w, tool, "modePickAttach")

handleToolAttach(w, tool, in) ==
  LET dir == currentDir(w, in)
      inDir == toolSessionsInDir(w, tool, dir)
      targets == runningToolSessions(w, tool)
  IN IF dir # "" /\ Len(inDir) = 1 THEN startAndAttachSession(w, inDir[1], "", in)
     ELSE IF dir # "" /\ Len(inDir) > 1
       THEN [w EXCEPT !.m.mode = "modePickAttach",
                      !.m.pickerTool = tool,
                      !.m.pickerTargets = TargetsOf(inDir, Len(inDir)),
                      !.m.homeNotice = "multiple sessions in this directory"]
     ELSE IF Len(targets) = 0 THEN createAndAttachTool(w, tool, in)
     ELSE IF Len(targets) = 1 THEN startAndAttachSession(w, targets[1], "", in)
     ELSE preparePicker(w, tool, "modePickAttach")

\* a kill that forgets the wrapper whether or not the session was stopped
handleToolKillOptimistic(w, tool, in) ==
  LET targets == runningToolSessions(w, tool)
  IN IF Len(targets) = 0
       THEN [w EXCEPT !.m.homeNotice = "no %s sessions running", !.m.mode = "modeHome"]
     ELSE IF Len(targets) = 1
       THEN LET r == KillSession(w, targets[1], in.kill)
            IN [refreshBindings([r.w EXCEPT !.m.sessions = @ \ {targets[1]}]) EXCEPT
                  !.m.homeNotice = IF r.err THEN "failed to stop %s: %v" ELSE "stopped %s",
                  !.m.mode = "modeHome"]
     ELSE preparePicker(w, tool, "modePickKill")

handleToolKill(w, tool, in) ==
  LET targets == runningToolSessions(w, tool)
  IN IF Len(targets) = 0
       THEN [w EXCEPT !.m.homeNotice = "no %s sessions running", !.m.mode = "modeHome"]
     ELSE IF Len(targets) = 1
       THEN LET r == KillSession(w, targets[1], in.kill)
            IN [refreshBindings(r.w) EXCEPT
                  !.m.homeNotice = IF r.err THEN "failed to stop %s: %v" ELSE "stopped %s",
                  !.m.mode = "modeHome"]
     ELSE preparePicker(w, tool, "modePickKill")

runningSessionNames(w) == SortNames({n \in w.m.sessions : IsRunning(w, n)})

TaskPID(name, j) == BaseRank(name[1]) * 10000 + name[2] * 100 + j

\* sessionUserTasksFn(name): the user tasks of a session, in.tasks[name] many
sessionUserTasks(in, name) ==
  LET k == IF name \in DOMAIN in.tasks THEN in.tasks[name] ELSE 0
  IN [j \in 1..k |-> [Session |-> name, PID |-> TaskPID(name, j)]]

RECURSIVE Flatten(_)
Flatten(ss) == IF ss = <<>> THEN <<>> ELSE Head(ss) \o Flatten(Tail(ss))

enterTaskKillPicker(w, in) ==
  LET names == runningSessionNames(w)
      targets == Flatten([i \in 1..Len(names) |-> sessionUserTasks(in, names[i])])
      limit == Min(Len(targets), maxKeys)
  IN IF Len(targets) = 0
       THEN [w EXCEPT !.m.mode = "modeHome", !.m.homeNotice = "no tasks to kill"]
     ELSE [w EXCEPT !.m.mode = "modePickKillTask",
                    !.m.taskKillTargets = TargetsOf(targets, limit),
                    !.m.homeNotice = IF Len(targets) > maxKeys
                                     THEN "showing first 26 tasks" ELSE ""]

cancelModeKeepsMode(w) == [w EXCEPT !.m.homeNotice = ""]

\* esc in a non-home mode, d in new-tool and kill-tool mode
cancelMode(w) == [w EXCEPT !.m.mode = "modeHome", !.m.homeNotice = ""]

quitKillingServer(w) == [KillServer(w) EXCEPT !.quit = TRUE]

\* d at home: quit without killing sessions
quitUI(w) == [w EXCEPT !.quit = TRUE]

\* the digit keys, which an earlier picker took as a choice of suggestion
Digits == {"1", "2", "3", "4", "5", "6", "7", "8", "9"}

\* tea.KeyRunes: letters and digits alike
IsRunes(key) == key \in Range(pickerChars) \cup Digits

\* a dir-jump where a digit picks the suggestion of that rank
updateDirJumpDigitSelects(w, key, in) ==
  CASE key = "enter" ->
         LET w1 == IF Len(w.m.dirSuggestions) = 0 THEN refreshDirSuggestions(w, in) ELSE w
             n == Len(w1.m.dirSuggestions)
             sel == IF w1.m.dirSelection < 0 \/ w1.m.dirSelection >= n
                    THEN 0 ELSE w1.m.dirSelection
         IN IF n = 0 THEN [w1 EXCEPT !.m.homeNotice = "no matching directories"]
            ELSE applyDirChange([w1 EXCEPT !.m.dirSelection = sel],
                                w1.m.dirSuggestions[sel + 1], in)
    [] key = "up" ->
         LET n == Len(w.m.dirSuggestions)
         IN IF n = 0 THEN w
            ELSE [w EXCEPT !.m.dirSelection = IF @ <= 0 THEN n - 1 ELSE @ - 1]
    [] key = "down" ->
         LET n == Len(w.m.dirSuggestions)
         IN IF n = 0 THEN w ELSE [w EXCEPT !.m.dirSelection = (@ + 1) % n]
    [] key = "backspace" ->
         refreshDirSuggestions(
           [w EXCEPT !.m.dirQuery = IF Len(@) > 0 THEN SubSeq(@, 1, Len(@) - 1) ELSE @,
                     !.m.dirSelection = 0], in)
    [] key \in Digits /\ Len(w.m.dirSuggestions) >= 1 ->
         applyDirChange(w, w.m.dirSuggestions[1], in)
    [] IsRunes(key) ->
         refreshDirSuggestions(
           [w EXCEPT !.m.dirQuery = Append(@, key), !.m.dirSelection = 0], in)
    [] OTHER -> w

updateDirJump(w, key, in) ==
  CASE key = "enter" ->
         LET w1 == IF Len(w.m.dirSuggestions) = 0 THEN refreshDirSuggestions(w, in) ELSE w
             n == Len(w1.m.dirSuggestions)
             sel == IF w1.m.dirSelection < 0 \/ w1.m.dirSelection >= n
                    THEN 0 ELSE w1.m.dirSelection
         IN IF n = 0 THEN [w1 EXCEPT !.m.homeNotice = "no matching directories"]
            ELSE applyDirChange([w1 EXCEPT !.m.dirSelection = sel],
                                w1.m.dirSuggestions[sel + 1], in)
    [] key = "up" ->
         LET n == Len(w.m.dirSuggestions)
         IN IF n = 0 THEN w
            ELSE [w EXCEPT !.m.dirSelection = IF @ <= 0 THEN n - 1 ELSE @ - 1]
    [] key = "down" ->
         LET n == Len(w.m.dirSuggestions)
         IN IF n = 0 THEN w ELSE [w EXCEPT !.m.dirSelection = (@ + 1) % n]
    [] key = "backspace" ->
         refreshDirSuggestions(
           [w EXCEPT !.m.dirQuery = IF Len(@) > 0 THEN SubSeq(@, 1, Len(@) - 1) ELSE @,
                     !.m.dirSelection = 0], in)
    [] IsRunes(key) ->
         refreshDirSuggestions(
           [w EXCEPT !.m.dirQuery = Append(@, key), !.m.dirSelection = 0], in)
    [] OTHER -> w

\* the letters the handlers compare the key with
ToolKey(tool) == CASE tool = "claude" -> "c" [] tool = "codex" -> "x" [] OTHER -> "u"

ToolOfDefaultKey(key) ==
  CASE key = "c" -> "claude" [] key = "x" -> "codex" [] key = "u" -> "cursor" [] OTHER -> ""

updateNewTool(w, key, in) ==
  LET tool == ToolOfDefaultKey(key)
  IN IF tool = "" THEN [w EXCEPT !.m.homeNotice = "Unknown new target %q. Use c, x, or u."]
     ELSE IF toolAlreadyRunningInDir(w, tool, currentDir(w, in))
       THEN [w EXCEPT !.m.homeNotice = "%s already running in this directory"]
     ELSE createAndAttachTool(w, tool, in)

updateKillTool(w, key, in) ==
  LET tool == ToolOfDefaultKey(key)
  IN IF \A t \in Tools : Len(runningToolSessions(w, t)) = 0
       THEN [w EXCEPT !.m.mode = "modeHome", !.m.homeNotice = "no kill targets are running"]
     ELSE IF tool # ""
       THEN IF Len(runningToolSessions(w, tool)) = 0
              THEN [w EXCEPT !.m.homeNotice = "%s is not running"]
            ELSE IF Len(runningToolSessions(w, tool)) > 1
              THEN preparePicker(w, tool, "modePickKill")
            ELSE handleToolKill(w, tool, in)
     ELSE IF key = "t" THEN enterTaskKillPicker(w, in)
     ELSE [w EXCEPT !.m.homeNotice = "Unknown kill target %q."]

updatePickAttach(w, key, in) ==
  IF key \notin DOMAIN w.m.pickerTargets
    THEN [w EXCEPT !.m.homeNotice = "Unknown target %q."]
  ELSE startAndAttachSession(w, w.m.pickerTargets[key], "", in)

updatePickKill(w, key, in) ==
  IF key \notin DOMAIN w.m.pickerTargets
    THEN [w EXCEPT !.m.homeNotice = "Unknown target %q."]
  ELSE LET r == KillSession(w, w.m.pickerTargets[key], in.kill)
       IN refreshBindings(
            [r.w EXCEPT !.m.homeNotice = IF r.err THEN "failed to stop %s: %v"
                                         ELSE "stopped %s",
                        !.m.mode = "modeHome"])

killTaskPID(w, pid) == [w EXCEPT !.log.signals = Append(@, pid)]

\* a failed signal leaves the picker open
updatePickKillTaskStayingOnError(w, key, in) ==
  IF key \notin DOMAIN w.m.taskKillTargets
    THEN [w EXCEPT !.m.homeNotice = "Unknown task target %q."]
  ELSE [killTaskPID(w, w.m.taskKillTargets[key].PID) EXCEPT
          !.m.homeNotice = IF in.signal = "fail" THEN "failed to kill pid %d: %v"
                           ELSE "killed pid %d",
          !.m.mode = IF in.signal = "fail" THEN @ ELSE "modeHome"]

updatePickKillTask(w, key, in) ==
  IF key \notin DOMAIN w.m.taskKillTargets
    THEN [w EXCEPT !.m.homeNotice = "Unknown task target %q."]
  ELSE [killTaskPID(w, w.m.taskKillTargets[key].PID) EXCEPT
          !.m.homeNotice = IF in.signal = "fail" THEN "failed to kill pid %d: %v"
                           ELSE "killed pid %d",
          !.m.mode = "modeHome"]

hasAnyRunningSessions(w) == \E n \in w.m.sessions : IsRunning(w, n)

updateHomeKeys(w, key, in) ==
  IF ToolOfDefaultKey(key) # "" THEN handleToolAttach(w, ToolOfDefaultKey(key), in)
  ELSE IF key = "z"
    THEN IF ~w.m.hasFasder
           THEN [w EXCEPT !.m.homeNotice = "fasder not found; install fasder to use z"]
         ELSE refreshDirSuggestions(
                [w EXCEPT !.m.mode = "modeDirJump", !.m.homeNotice = "",
                          !.m.dirQuery = <<>>, !.m.dirSuggestions = <<>>,
                          !.m.dirSelection = 0], in)
  ELSE IF key = "n" THEN [w EXCEPT !.m.mode = "modeNewTool", !.m.homeNotice = ""]
  ELSE IF key = "k"
    THEN IF ~hasAnyRunningSessions(w)
           THEN [w EXCEPT !.m.homeNotice = "no running sessions to kill"]
         ELSE [w EXCEPT !.m.mode = "modeKillTool", !.m.homeNotice = ""]
  ELSE IF \E s \in cfg.Sessions : s.Key = key
    THEN LET s == CHOOSE s \in cfg.Sessions : s.Key = key
         IN startAndAttachSession(w, s.Name, "custom-command", in)
  ELSE IF key = "t" /\ w.m.mode = "modeHome"
    THEN [w EXCEPT !.m.showTaskDetails = ~@]
  ELSE w

updateHome(w0, key, in) ==
  LET w == refreshBindings(w0)
  IN IF key = "ctrl+c" THEN [KillServer(w) EXCEPT !.quit = TRUE]
     ELSE IF key = "d" /\ w.m.mode = "modeHome" THEN quitUI(w)
     ELSE IF key = "d" /\ w.m.mode \in {"modeNewTool", "modeKillTool"} THEN cancelMode(w)
     ELSE IF key = "esc" /\ w.m.mode # "modeHome" THEN cancelMode(w)
     ELSE CASE w.m.mode = "modeDirJump" -> updateDirJump(w, key, in)
            [] w.m.mode = "modeNewTool" -> updateNewTool(w, key, in)
            [] w.m.mode = "modeKillTool" -> updateKillTool(w, key, in)
            [] w.m.mode = "modePickAttach" -> updatePickAttach(w, key, in)
            [] w.m.mode = "modePickKill" -> updatePickKill(w, key, in)
            [] w.m.mode = "modePickKillTask" -> updatePickKillTask(w, key, in)
            [] OTHER -> updateHomeKeys(w, key, in)

\* ------------------------------------------------------------ reconciliation
\* steps 1-3 of the registry's reconciliation: a wrapper for every configured
\* and every live session, none for a name that is neither
syncSessionsWithTmuxNoPrune(w) ==
  [w EXCEPT !.m.sessions = @ \cup AllSessions(cfg) \cup w.tmux.live]

syncSessionsWithTmux(w) ==
  LET live == w.tmux.live
      ensured == w.m.sessions \cup AllSessions(cfg) \cup live
  IN [w EXCEPT !.m.sessions = {n \in ensured : n \in AllSessions(cfg) \/ n \in live}]

\* ------------------------------------------------------------------ inputs
NoTasks == [n \in {} |-> 0]

DefaultIn ==
  [getwd |-> TRUE, create |-> "ok", kill |-> "ok", signal |-> "ok",
   tasks |-> NoTasks, lookup |-> [err |-> TRUE, dirs |-> <<>>], chdir |-> TRUE]

\* lookupDirectoriesWithFasder: an error, or the directories found
LookupResults ==
  {[err |-> TRUE, dirs |-> <<>>],
   [err |-> FALSE, dirs |-> <<"/a", "/b">>]}

\* the inputs a key event can read in the current mode
Inputs(counts, lookups) ==
  CASE m.mode = "modeDirJump" ->
         {[DefaultIn EXCEPT !.lookup = l, !.chdir = c] : l \in lookups, c \in BOOLEAN}
    [] m.mode = "modeKillTool" ->
         {[DefaultIn EXCEPT !.kill = k] : k \in {"ok", "fail"}}
         \cup {[DefaultIn EXCEPT !.tasks = [n \in m.sessions \cap tmux.live |-> c]] :
                 c \in counts}
    [] m.mode = "modePickKill" ->
         {[DefaultIn EXCEPT !.kill = k] : k \in {"ok", "fail"}}
    [] m.mode = "modePickKillTask" ->
         {[DefaultIn EXCEPT !.signal = k] : k \in {"ok", "fail"}}
    [] OTHER ->
         {[DefaultIn EXCEPT !.getwd = g, !.create = c] :
            g \in BOOLEAN, c \in {"ok", "fail", "partial"}}
         \cup {[DefaultIn EXCEPT !.lookup = l] : l \in lookups}

\* a handler creates no session beyond the bounds of the model
InBounds(w) ==
  /\ w.tmux.live \subseteq tmux.live
       \/ (Cardinality(w.tmux.live) <= MaxLive /\ w.tmux.live \subseteq Names)
  /\ Len(w.m.dirQuery) <= MaxQuery

\* ----------------------------------------------------------------- actions
\* the last step taken: its kind, the key and the mode it was handled in, and
\* for a reconciliation the names known before it
\* and the request the main loop clears, dir the working directory the
\* handler saw
Op(kind, key, dir) ==
  [kind |-> kind, key |-> key, from |-> m.mode, dir |-> dir,
   prev |-> IF kind = "sync" THEN m.sessions
            ELSE IF kind = "run-ui" /\ m.shouldAttach THEN {m.sessionToAttach}
            ELSE {}]

Apply(w) ==
  /\ m' = w.m
  /\ tmux' = w.tmux
  /\ cwd' = w.cwd
  /\ log' = w.log
  /\ attached' = w.attach

\* model.Update, tea.KeyMsg
KeyEvent(key, in) ==
  /\ uiRunning
  /\ LET w == updateHome(World, key, in)
     IN /\ InBounds(w)
        /\ Apply(w)
        /\ quitPending' = (quitPending \/ w.quit)
  /\ lastOp' = Op("key", key, currentDir(World, in))
  /\ UNCHANGED <<cfg, pc, uiRunning>>

\* model.Update, tickMsg
Tick ==
  /\ uiRunning
  /\ Apply(refreshBindings(World))
  /\ lastOp' = Op("tick", "", "")
  /\ UNCHANGED <<cfg, pc, uiRunning, quitPending>>

SyncSessions ==
  /\ uiRunning
  /\ Apply(syncSessionsWithTmux(World))
  /\ lastOp' = Op("sync", "", "")
  /\ UNCHANGED <<cfg, pc, uiRunning, quitPending>>

\* the loop without the reset of the request
RunUIKeepingRequest ==
  /\ pc = "loop"
  /\ uiRunning' = TRUE
  /\ pc' = "run"
  /\ log' = World.log
  /\ lastOp' = Op("run-ui", "", "")
  /\ UNCHANGED <<cfg, m, tmux, cwd, quitPending, attached>>

\* main: top of the loop up to p.Run()
RunUI ==
  /\ pc = "loop"
  /\ m' = [m EXCEPT !.shouldAttach = FALSE, !.sessionToAttach = NoName]
  /\ uiRunning' = TRUE
  /\ pc' = "run"
  /\ log' = World.log
  /\ lastOp' = Op("run-ui", "", "")
  /\ UNCHANGED <<cfg, tmux, cwd, quitPending, attached>>

\* p.Run() returns the final model after the quit message
UIExit ==
  /\ pc = "run" /\ uiRunning /\ quitPending
  /\ uiRunning' = FALSE
  /\ quitPending' = FALSE
  /\ pc' = "returned"
  /\ log' = World.log
  /\ lastOp' = Op("ui-exit", "", "")
  /\ UNCHANGED <<cfg, m, tmux, cwd, attached>>

\* p.Run() returns an error: os.Exit(1)
UIFail ==
  /\ pc = "run" /\ uiRunning
  /\ uiRunning' = FALSE
  /\ quitPending' = FALSE
  /\ pc' = "exit1"
  /\ log' = World.log
  /\ lastOp' = Op("ui-fail", "", "")
  /\ UNCHANGED <<cfg, m, tmux, cwd, attached>>

\* main without the look at IsRunning before tmuxSess.Attach()
CoordinatorAttachingAnyway ==
  /\ pc = "returned"
  /\ lastOp' = Op("coordinator", "", "")
  /\ log' = World.log
  /\ IF ~m.shouldAttach \/ m.sessionToAttach = NoName
       THEN /\ pc' = "exit0"
            /\ UNCHANGED <<m, attached>>
     ELSE /\ m' = [m EXCEPT !.sessions = @ \cup {m.sessionToAttach}]
          /\ pc' = "attached"
          /\ attached' = m.sessionToAttach
  /\ UNCHANGED <<cfg, tmux, cwd, uiRunning, quitPending>>

\* main: from the check of shouldAttach to tmuxSess.Attach(); the line
\* "Session %q is not running" on os.Stderr is logged as <<"stderr", name>>
Coordinator ==
  /\ pc = "returned"
  /\ lastOp' = Op("coordinator", "", "")
  /\ IF ~m.shouldAttach \/ m.sessionToAttach = NoName
       THEN /\ pc' = "exit0"
            /\ log' = World.log
            /\ UNCHANGED <<m, attached>>
     ELSE /\ m' = [m EXCEPT !.sessions = @ \cup {m.sessionToAttach}]
          /\ IF ~IsRunning(World, m.sessionToAttach)
               THEN /\ log' = Logged(World, "stderr", m.sessionToAttach).log
                    /\ pc' = "loop"
                    /\ UNCHANGED attached
             ELSE /\ log' = World.log
                  /\ pc' = "attached"
                  /\ attached' = m.sessionToAttach
  /\ UNCHANGED <<cfg, tmux, cwd, uiRunning, quitPending>>

\* tmuxSess.Attach() returns: detach, session death or attach error
AttachReturn ==
  /\ pc = "attached"
  /\ attached' = NoName
  /\ pc' = "loop"
  /\ log' = World.log
  /\ lastOp' = Op("attach-return", "", "")
  /\ UNCHANGED <<cfg, m, tmux, cwd, uiRunning, quitPending>>

\* sessions created and killed outside this UI
ExternalCreate(name, dir) ==
  /\ pc \notin {"exit0", "exit1"}
  /\ name \notin tmux.live
  /\ Cardinality(tmux.live) < MaxLive
  /\ tmux' = [live |-> tmux.live \cup {name},
              cwdOpt |-> [n \in tmux.live \cup {name} |->
                            IF n = name THEN dir ELSE tmux.cwdOpt[n]]]
  /\ log' = World.log
  /\ lastOp' = Op("external-create", "", "")
  /\ UNCHANGED <<cfg, m, cwd, pc, uiRunning, quitPending, attached>>

ExternalKill(name) ==
  /\ pc \notin {"exit0", "exit1"}
  /\ name \in tmux.live
  /\ tmux' = Removed(World, {name}).tmux
  /\ log' = World.log
  /\ lastOp' = Op("external-kill", "", "")
  /\ UNCHANGED <<cfg, m, cwd, pc, uiRunning, quitPending, attached>>

TmuxStates(names, dirs) ==
  UNION {[live : {L}, cwdOpt : [L -> dirs]] :
           L \in {S \in SUBSET names : Cardinality(S) <= MaxLive}}

InitWith(cfgs, tmuxes, fasders) ==
  /\ cfg \in cfgs
  /\ Validate(cfg)
  /\ tmux \in tmuxes
  /\ \E fasder \in fasders : m = initialModel(cfg, tmux.live, fasder)
  /\ cwd = "/a"
  /\ log = [cmds |-> {}, signals |-> <<>>]
  /\ lastOp = [kind |-> "init", key |-> "", from |-> "modeHome", dir |-> "", prev |-> {}]
  /\ pc = "loop"
  /\ uiRunning = FALSE
  /\ quitPending = FALSE
  /\ attached = NoName

\* the UI handles a message only while no quit command is pending
UIStep(keys, counts, lookups) ==
  /\ ~quitPending
  /\ \E key \in keys : \E in \in Inputs(counts, lookups) : KeyEvent(key, in)

UITick == ~quitPending /\ Tick

UISync == ~quitPending /\ SyncSessions

MainLoop == RunUI \/ UIExit \/ UIFail \/ Coordinator \/ AttachReturn

\* ---- Spec: the supervisor with the session keys, default configuration
\* claude and codex stand for the three tools, a for the slots of a picker
LifecycleKeys == {"c", "x", "n", "k", "d", "a", "esc", "ctrl+c"}

LifecycleNames == {<<"claude", 0>>, <<"codex", 0>>, <<"codex", 2>>}

Init == InitWith({DefaultConfig}, TmuxStates(LifecycleNames, Dirs), {TRUE})

UIKey == UIStep(LifecycleKeys, {0}, {DefaultIn.lookup})

KillOutside == \E name \in Names : ExternalKill(name)

CreateOutside == \E name \in ToolNames, dir \in Dirs : ExternalCreate(name, dir)

Next ==
  \/ UIKey
  \/ UITick
  \/ UISync
  \/ MainLoop
  \/ KillOutside

Spec == Init /\ [][Next]_vars

\* ---- SpecSync: reconciliation against sessions created and killed outside
CursorDisabled == [DefaultConfig EXCEPT !.Enabled["cursor"] = FALSE]

InitSync == InitWith({DefaultConfig, CursorDisabled}, TmuxStates(ToolNames, Dirs), {TRUE})

NextSync ==
  \/ RunUI
  \/ UITick
  \/ UISync
  \/ CreateOutside
  \/ KillOutside

SpecSync == InitSync /\ [][NextSync]_vars

\* C1: after construction and after every reconciliation the names the UI
\* knows are exactly the configured base sessions and the live sessions
SessionsReconciled ==
  lastOp.kind \in {"init", "sync"} => m.sessions = AllSessions(cfg) \cup tmux.live

\* a reconciliation that pruned a stale name, added a live one and kept a
\* configured session that is not running
SessionsReconciledWitness ==
  /\ lastOp.kind = "sync"
  /\ \E n \in lastOp.prev : n \notin m.sessions
  /\ \E n \in m.sessions : n \notin lastOp.prev /\ n \in tmux.live
  /\ \E n \in m.sessions : n \in AllSessions(cfg) /\ n \notin tmux.live

\* ---- SpecModes: every mode of the UI, with tasks and directory lookups
ModeNames == {<<"codex", 0>>, <<"codex", 2>>}

ModeKeys == {"x", "n", "k", "z", "t", "esc"}

InitModes == InitWith({DefaultConfig}, TmuxStates(ModeNames, {"/a"}), {TRUE})

\* in the directory jump every letter is text: one letter stands for them
ModeKey ==
  UIStep(IF m.mode = "modeDirJump" THEN {"z", "esc"} ELSE ModeKeys,
         0..MaxTasks, LookupResults)

NextModes ==
  \/ ModeKey
  \/ UITick
  \/ MainLoop

SpecModes == InitModes /\ [][NextModes]_vars

AttachOutsideUI ==
  /\ attached # NoName => (~uiRunning /\ pc = "attached")
  /\ lastOp.kind \in {"key", "tick", "sync"} => attached = NoName

\* the coordinator attached the session a key handler asked for
AttachOutsideUIWitness ==
  /\ lastOp.kind = "coordinator"
  /\ attached # NoName
  /\ attached = m.sessionToAttach
  /\ m.shouldAttach

\* C4: the UI never handles a message with an attach request pending: the
\* request the previous iteration consumed is cleared when the UI starts
\* again, and the request is one session name
RequestClearedBeforeUI ==
  /\ (uiRunning /\ ~quitPending) => (~m.shouldAttach /\ m.sessionToAttach = NoName)
  /\ m.shouldAttach => m.sessionToAttach \in Names

\* the UI started again after an attach and dropped the consumed request
RequestClearedBeforeUIWitness ==
  /\ lastOp.kind = "run-ui"
  /\ lastOp.prev # {}
  /\ uiRunning
  /\ ~m.shouldAttach

\* C5: d at home quits and issues no tmux command, the live sessions stay as
\* they are; a kill-server is issued only by the handler of ctrl+c, which
\* quits
QuitKeepsSessions ==
  [][/\ (lastOp'.kind = "key" /\ lastOp'.key = "d" /\ lastOp'.from = "modeHome") =>
          (quitPending' /\ log'.cmds = {} /\ log'.signals = <<>> /\ tmux' = tmux)
     /\ (<<"kill-server", NoName>> \in log'.cmds) =>
          (lastOp'.kind = "key" /\ lastOp'.key = "ctrl+c" /\ quitPending'
             /\ tmux'.live = {})]_vars

\* d quit the UI at home while sessions were running
QuitKeepsSessionsWitness ==
  /\ lastOp.kind = "key"
  /\ lastOp.key = "d"
  /\ lastOp.from = "modeHome"
  /\ quitPending
  /\ tmux.live # {}

\* the picker has one letter slot per name, in order
SlotsAre(targets, names) ==
  /\ DOMAIN targets = {pickerChars[i] : i \in 1..Len(names)}
  /\ \A i \in 1..Len(names) : targets[pickerChars[i]] = names[i]

\* the running sessions of a tool the UI knows, sorted
RunningOf(tool) ==
  SortNames({n \in m.sessions \cap tmux.live : toolFromSessionName(n) = tool})

\* those of them started in directory dir
RunningIn(tool, dir) ==
  SortNames({n \in m.sessions \cap tmux.live :
               toolFromSessionName(n) = tool /\ tmux.cwdOpt[n] = dir})

CreateInputs ==
  {[DefaultIn EXCEPT !.getwd = g, !.create = c] :
     g \in BOOLEAN, c \in {"ok", "fail", "partial"}}

DirectCreate(tool, in) ==
  /\ uiRunning
  /\ ~quitPending
  /\ LET w == createAndAttachTool(World, tool, in)
     IN /\ InBounds(w)
        /\ Apply(w)
        /\ quitPending' = w.quit
  /\ lastOp' = Op("direct-create", tool, currentDir(World, in))
  /\ UNCHANGED <<cfg, pc, uiRunning>>

CallCreate == \E tool \in {"codex"}, in \in CreateInputs : DirectCreate(tool, in)

NextDirect ==
  \/ CallCreate
  \/ UITick
  \/ MainLoop
  \/ KillOutside

SpecDirect == Init /\ [][NextDirect]_vars

\* C7: when the bindings show a session of the tool running in the working
\* directory, createAndAttachTool issues no tmux command: with one such
\* session it requests the attach of it and quits, with more it opens the
\* attach-picker over the sessions of the directory with the notice "session
\* already running in this directory" and requests nothing
NoCreateInSameDirectory ==
  [][(lastOp'.kind = "direct-create" /\ lastOp'.dir # "") =>
       LET tool == lastOp'.key
           here == SortNames({n \in DOMAIN m.bindings :
                                /\ toolFromSessionName(n) = tool
                                /\ m.bindings[n].Running
                                /\ m.bindings[n].Cwd = lastOp'.dir})
       IN /\ Len(here) >= 1 => (log'.cmds = {} /\ tmux' = tmux)
          /\ Len(here) = 1 =>
               (m'.shouldAttach /\ m'.sessionToAttach = here[1] /\ quitPending')
          /\ Len(here) > 1 =>
               /\ m'.mode = "modePickAttach"
               /\ m'.pickerTool = tool
               /\ SlotsAre(m'.pickerTargets, here)
               /\ m'.homeNotice = "session already running in this directory"
               /\ ~m'.shouldAttach
               /\ ~quitPending']_vars

\* the picker over the two codex sessions of the working directory
NoCreateInSameDirectoryWitness ==
  /\ lastOp.kind = "direct-create"
  /\ lastOp.dir = cwd
  /\ m.mode = "modePickAttach"
  /\ m.homeNotice = "session already running in this directory"
  /\ DOMAIN m.pickerTargets = {"a", "b"}
  /\ \A n \in {<<"codex", 0>>, <<"codex", 2>>} : n \in tmux.live /\ tmux.cwdOpt[n] = cwd

\* C8: in new-tool mode the key of a tool with a running session started in
\* the working directory issues no tmux command, sets no attach request,
\* does not quit and stays in new-tool mode with the notice of the directory
NewToolRefusesSameDirectory ==
  [][\A tool \in Tools :
       (/\ lastOp'.kind = "key"
        /\ lastOp'.from = "modeNewTool"
        /\ lastOp'.key = ToolKey(tool)
        /\ lastOp'.dir # ""
        /\ Len(RunningIn(tool, lastOp'.dir)) > 0) =>
          /\ log'.cmds = {}
          /\ tmux' = tmux
          /\ m'.sessions = m.sessions
          /\ ~m'.shouldAttach
          /\ m'.sessionToAttach = NoName
          /\ ~quitPending'
          /\ m'.mode = "modeNewTool"
          /\ m'.homeNotice = "%s already running in this directory"]_vars

\* x refused in new-tool mode with exactly one codex session in the directory
NewToolRefusesSameDirectoryWitness ==
  /\ lastOp.kind = "key"
  /\ lastOp.key = "x"
  /\ lastOp.from = "modeNewTool"
  /\ lastOp.dir = cwd
  /\ Len(RunningIn("codex", cwd)) = 1
  /\ m.mode = "modeNewTool"
  /\ m.homeNotice = "%s already running in this directory"

\* ---- SpecConfig: disabled and remapped tools, custom sessions
ConfigKeys == {"u", "r", "v", "n", "esc"}

InitConfig == InitWith(Configs, TmuxStates({<<"cursor", 0>>}, {"/b"}), {TRUE})

ConfigKey == UIStep(ConfigKeys, {0}, {DefaultIn.lookup})

NextConfig ==
  \/ ConfigKey
  \/ UITick
  \/ MainLoop
  \/ KillOutside

SpecConfig == InitConfig /\ [][NextConfig]_vars

\* C9: at home and in new-tool mode the key of a disabled tool creates no
\* session, sets no attach request and leaves the mode unchanged; the
\* default letter of a tool remapped to another key does not trigger the tool
ConfiguredKeysOnly ==
  [][\A tool \in Tools :
       (lastOp'.kind = "key" /\ lastOp'.from \in {"modeHome", "modeNewTool"}) =>
         /\ (~cfg.Enabled[tool] /\ lastOp'.key = cfg.Key[tool]) =>
              /\ log'.cmds = {}
              /\ ~m'.shouldAttach
              /\ m'.mode = m.mode
         /\ (/\ cfg.Enabled[tool]
             /\ cfg.Key[tool] # ToolKey(tool)
             /\ lastOp'.key = ToolKey(tool)) =>
              /\ \A n \in Names : n[1] = tool => <<"create", n>> \notin log'.cmds
              /\ ~(m'.shouldAttach /\ m'.sessionToAttach[1] = tool)]_vars

\* ---- SpecPicker: pickers over more sessions than there are letters
ManySessions(k) == {<<"codex", 0>>} \cup {<<"codex", i>> : i \in 2..k}

InitPicker ==
  InitWith({DefaultConfig},
           {[live |-> ManySessions(k), cwdOpt |-> [n \in ManySessions(k) |-> d]] :
              k \in (BigN - 2)..(BigN - 1), d \in Dirs},
           {TRUE})

PickerInputs ==
  {[DefaultIn EXCEPT !.getwd = g,
                     !.tasks = [n \in m.sessions \cap tmux.live |-> c]] :
     g \in BOOLEAN, c \in 0..MaxTasks}

PickerKeys == {"x", "n", "k", "t", "d", "esc"}

\* in a picker the first slot stands for the selection of a slot; the
\* sessions are kept, so that every picker opens over all of them
PickerKey ==
  /\ ~quitPending
  /\ \E key \in CASE m.mode \in {"modePickAttach", "modePickKillTask"} -> {"a", "esc"}
                    [] m.mode = "modePickKill" -> {"esc"}
                    [] OTHER -> PickerKeys :
       \E in \in PickerInputs : KeyEvent(key, in)

NextPicker ==
  \/ PickerKey
  \/ UITick
  \/ MainLoop

SpecPicker == InitPicker /\ [][NextPicker]_vars

\* C10: every slot of every picker is a single letter a..z, and a picker
\* just opened over more than 26 running sessions has exactly 26 slots and
\* the notice "showing first 26 sessions"
PickerBounds ==
  /\ DOMAIN m.pickerTargets \subseteq Range(pickerChars)
  /\ DOMAIN m.taskKillTargets \subseteq Range(pickerChars)
  /\ (/\ lastOp.kind = "key"
      /\ lastOp.from \in {"modeHome", "modeNewTool", "modeKillTool"}
      /\ m.mode \in {"modePickAttach", "modePickKill"}
      /\ Len(RunningOf(m.pickerTool)) > maxKeys) =>
        /\ Cardinality(DOMAIN m.pickerTargets) = maxKeys
        /\ m.homeNotice = "showing first 26 sessions"

\* ---- SpecNames: nextSessionName on sessions with gaps in their suffixes
NamePool ==
  {<<"codex", 0>>, <<"codex", 1>>, <<"codex", 2>>, <<"codex", 4>>,
   <<"claude", 0>>, <<"claude", 3>>}

InitNames == InitWith({DefaultConfig}, TmuxStates(NamePool, {"/a"}), {TRUE})

\* m.nextSessionName(tool), the name it returns kept in lastOp.prev
CallNextName(tool) ==
  /\ log' = World.log
  /\ lastOp' = [kind |-> "next-name", key |-> tool, from |-> m.mode, dir |-> "",
                prev |-> {nextSessionName(World, tool)}]
  /\ UNCHANGED <<cfg, m, tmux, cwd, pc, uiRunning, quitPending, attached>>

NextName == \E tool \in {"claude", "codex"} : CallNextName(tool)

CreatePooled == \E name \in NamePool : ExternalCreate(name, "/a")

KillPooled == \E name \in NamePool : ExternalKill(name)

NextNames ==
  \/ NextName
  \/ CreatePooled
  \/ KillPooled

SpecNames == InitNames /\ [][NextNames]_vars

Focus == <<"focus", 0>>

RegistryNames == {<<"codex", 0>>, Focus}

\* a name outside the allowed characters
InvalidNames == {<<"a/b", 0>>}

\* values of the tool option: unset, a tool, a value that is no tool
ToolOpts == {"", "claude", "bogus"}

GetSessionTool(w, name) == IF name \in w.tmux.live THEN w.tmux.toolOpt[name] ELSE ""

SetSessionTool(w, name, tool) ==
  IF name \in w.tmux.live THEN [w EXCEPT !.tmux.toolOpt[name] = tool] ELSE w

\* the name-prefix heuristic before the stored values
resolveToolByName(w, name) ==
  IF toolFromSessionName(name) # "" THEN toolFromSessionName(name)
  ELSE IF GetSessionTool(w, name) \in Tools THEN GetSessionTool(w, name)
  ELSE IF name \in DOMAIN w.m.sessionTools THEN w.m.sessionTools[name]
  ELSE ""

\* the tool of a live session: the stored option if set and valid, else the
\* mapping in memory, else the name-prefix heuristic
resolveTool(w, name) ==
  IF GetSessionTool(w, name) \in Tools THEN GetSessionTool(w, name)
  ELSE IF name \in DOMAIN w.m.sessionTools THEN w.m.sessionTools[name]
  ELSE toolFromSessionName(name)

\* the reconciliation, steps 1-4: wrappers, tools, pruning, bindings
syncRegistry(w) ==
  LET w1 == syncSessionsWithTmux(w)
      tools == [n \in w1.m.sessions |->
                  IF n \in w.tmux.live THEN resolveTool(w, n)
                  ELSE IF n \in DOMAIN w.m.sessionTools THEN w.m.sessionTools[n]
                  ELSE toolFromSessionName(n)]
  IN refreshBindings([w1 EXCEPT !.m.sessionTools = tools])

\* running_by_tool: the running sessions mapped to the tool, sorted
runningByTool(w, tool) ==
  SortNames({n \in DOMAIN w.m.bindings :
               /\ w.m.bindings[n].Running
               /\ n \in DOMAIN w.m.sessionTools
               /\ w.m.sessionTools[n] = tool})

\* a validation that tests the length alone
validSessionNameAnyChars(name) == name # NoName

validSessionName(name) == name # NoName /\ name \notin InvalidNames

\* rename-session keeps the options of the session; it fails when old is
\* gone or new is taken
RenameSession(w, old, new, outcome) ==
  LET w1 == Logged(w, "rename", old)
      move(f) == [n \in (DOMAIN f \ {old}) \cup {new} |-> IF n = new THEN f[old] ELSE f[n]]
  IN IF old \notin w.tmux.live \/ new \in w.tmux.live \/ outcome = "fail"
       THEN [w |-> w1, err |-> TRUE]
     ELSE [w |-> [w1 EXCEPT !.tmux.live = (@ \ {old}) \cup {new},
                            !.tmux.cwdOpt = move(@),
                            !.tmux.toolOpt = move(@)],
           err |-> FALSE]

enterRenameInput(w, target) ==
  [w EXCEPT !.m.mode = "modeRenameInput",
            !.m.renameTarget = target,
            !.m.renameInput = NoName,
            !.m.homeNotice = ""]

\* a rename that moves the wrapper and leaves the tool to the name of new
applyRenameTargetLosingTool(w, in) ==
  LET old == w.m.renameTarget
      new == w.m.renameInput
  IN IF new = NoName THEN [w EXCEPT !.m.homeNotice = "session name cannot be empty"]
     ELSE IF ~validSessionName(new) THEN [w EXCEPT !.m.homeNotice = "invalid session name"]
     ELSE IF new = old THEN [w EXCEPT !.m.homeNotice = "name is unchanged"]
     ELSE IF new \in w.tmux.live \/ new \in w.m.sessions
       THEN [w EXCEPT !.m.homeNotice = "session %s already exists"]
     ELSE LET r == RenameSession(w, old, new, in.rename)
          IN IF r.err THEN [r.w EXCEPT !.m.homeNotice = "failed to rename %s: %v"]
             ELSE [SetSessionTool(r.w, new, toolFromSessionName(new)) EXCEPT
                     !.m.sessions = (@ \ {old}) \cup {new},
                     !.m.sessionTools = [n \in (DOMAIN @ \ {old}) \cup {new} |->
                                           IF n = new THEN toolFromSessionName(new)
                                           ELSE @[n]],
                     !.m.bindings = [n \in DOMAIN @ \ {old} |-> @[n]],
                     !.m.mode = "modeHome",
                     !.m.renameTarget = NoName,
                     !.m.renameInput = NoName,
                     !.m.homeNotice = "renamed %s to %s"]

\* enter in rename-input: validate the draft, rename, move the wrapper and
\* the tool under the new name, store the tool option, drop the old binding
applyRenameTarget(w, in) ==
  LET old == w.m.renameTarget
      new == w.m.renameInput
  IN IF new = NoName THEN [w EXCEPT !.m.homeNotice = "session name cannot be empty"]
     ELSE IF ~validSessionName(new) THEN [w EXCEPT !.m.homeNotice = "invalid session name"]
     ELSE IF new = old THEN [w EXCEPT !.m.homeNotice = "name is unchanged"]
     ELSE IF new \in w.tmux.live \/ new \in w.m.sessions
       THEN [w EXCEPT !.m.homeNotice = "session %s already exists"]
     ELSE LET r == RenameSession(w, old, new, in.rename)
          IN IF r.err THEN [r.w EXCEPT !.m.homeNotice = "failed to rename %s: %v"]
             ELSE [SetSessionTool(r.w, new, w.m.sessionTools[old]) EXCEPT
                     !.m.sessions = (@ \ {old}) \cup {new},
                     !.m.sessionTools = [n \in (DOMAIN @ \ {old}) \cup {new} |->
                                           IF n = new THEN w.m.sessionTools[old]
                                           ELSE @[n]],
                     !.m.bindings = [n \in DOMAIN @ \ {old} |-> @[n]],
                     !.m.mode = "modeHome",
                     !.m.renameTarget = NoName,
                     !.m.renameInput = NoName,
                     !.m.homeNotice = "renamed %s to %s"]

\* the key handler of the rename modes, after the reconciliation every key
\* event starts with; the key "rune" stands for the keystrokes that leave
\* the draft at in.draft
updateRename(w0, key, in) ==
  LET w == syncRegistry(w0)
      tool == ToolOfDefaultKey(key)
  IN IF key = "esc" /\ w.m.mode # "modeHome" THEN cancelMode(w)
     ELSE CASE w.m.mode = "modeHome" ->
                 IF key # "r" THEN w
                 ELSE IF ~hasAnyRunningSessions(w)
                   THEN [w EXCEPT !.m.homeNotice = "no running sessions to rename"]
                 ELSE [w EXCEPT !.m.mode = "modeRenameTool", !.m.homeNotice = ""]
            [] w.m.mode = "modeRenameTool" ->
                 IF tool = "" THEN [w EXCEPT !.m.homeNotice = "Unknown rename target %q."]
                 ELSE LET targets == runningByTool(w, tool)
                      IN IF Len(targets) = 0
                           THEN [w EXCEPT !.m.homeNotice = "%s is not running"]
                         ELSE IF Len(targets) = 1 THEN enterRenameInput(w, targets[1])
                         ELSE [w EXCEPT !.m.mode = "modePickRename",
                                        !.m.pickerTool = tool,
                                        !.m.pickerTargets =
                                          TargetsOf(targets, Min(Len(targets), maxKeys)),
                                        !.m.homeNotice = ""]
            [] w.m.mode = "modePickRename" ->
                 IF key \notin DOMAIN w.m.pickerTargets
                   THEN [w EXCEPT !.m.homeNotice = "Unknown target %q."]
                 ELSE enterRenameInput(w, w.m.pickerTargets[key])
            [] w.m.mode = "modeRenameInput" ->
                 IF key = "enter" THEN applyRenameTarget(w, in)
                 ELSE IF key = "rune" THEN [w EXCEPT !.m.renameInput = in.draft]
                 ELSE w
            [] OTHER -> w

Drafts == {NoName, Focus} \cup InvalidNames

\* the inputs a key event can read: the draft typed, the outcome of the rename
RenameInputs(key) ==
  CASE key = "rune" -> {[rename |-> "ok", draft |-> d] : d \in Drafts}
    [] key = "enter" -> {[rename |-> r, draft |-> NoName] : r \in {"ok", "fail"}}
    [] OTHER -> {[rename |-> "ok", draft |-> NoName]}

RegistryTmuxStates ==
  UNION {{[live |-> L, cwdOpt |-> [n \in L |-> "/a"], toolOpt |-> t] : t \in [L -> ToolOpts]} :
           L \in {S \in SUBSET RegistryNames : Cardinality(S) <= MaxLive}}

InitRegistry ==
  /\ cfg = DefaultConfig
  /\ tmux \in RegistryTmuxStates
  /\ m = syncRegistry(
           [m |-> [sessions |-> {}, bindings |-> EmptyBindings, mode |-> "modeHome",
                   pickerTool |-> "", pickerTargets |-> EmptyTargets,
                   homeNotice |-> "", sessionTools |-> [n \in {} |-> ""],
                   renameTarget |-> NoName, renameInput |-> NoName],
            tmux |-> tmux]).m
  /\ cwd = "/a"
  /\ log = [cmds |-> {}, signals |-> <<>>]
  /\ lastOp = [kind |-> "init", key |-> "", from |-> "modeHome", dir |-> "", prev |-> {}]
  /\ pc = "run"
  /\ uiRunning = TRUE
  /\ quitPending = FALSE
  /\ attached = NoName

\* model.Update, tea.KeyMsg; prev is the target of the rename under way
RenameKeyEvent(key, in) ==
  /\ Apply(updateRename(World, key, in))
  /\ lastOp' = [kind |-> "key", key |-> key, from |-> m.mode, dir |-> "",
                prev |-> IF m.mode = "modeRenameInput" THEN {m.renameTarget} ELSE {}]
  /\ UNCHANGED <<cfg, pc, uiRunning, quitPending>>

RenameKey ==
  \E key \in CASE m.mode = "modeRenameInput" -> {"rune", "enter", "esc"}
               [] m.mode = "modePickRename" -> {"a", "b", "esc"}
               [] m.mode = "modeRenameTool" -> {"x", "c", "esc"}
               [] OTHER -> {"r"} :
    \E in \in RenameInputs(key) : RenameKeyEvent(key, in)

\* model.Update, tickMsg
RegistryTick ==
  /\ Apply(syncRegistry(World))
  /\ lastOp' = Op("sync", "", "")
  /\ UNCHANGED <<cfg, pc, uiRunning, quitPending>>

\* sessions created and killed outside this UI, tool options set outside
RegistryCreate(name, opt) ==
  /\ name \notin tmux.live
  /\ Cardinality(tmux.live) < MaxLive
  /\ tmux' = [live |-> tmux.live \cup {name},
              cwdOpt |-> [n \in tmux.live \cup {name} |->
                            IF n = name THEN "/a" ELSE tmux.cwdOpt[n]],
              toolOpt |-> [n \in tmux.live \cup {name} |->
                             IF n = name THEN opt ELSE tmux.toolOpt[n]]]
  /\ log' = World.log
  /\ lastOp' = Op("external-create", "", "")
  /\ UNCHANGED <<cfg, m, cwd, pc, uiRunning, quitPending, attached>>

RegistryKill(name) ==
  /\ name \in tmux.live
  /\ tmux' = [live |-> tmux.live \ {name},
              cwdOpt |-> [n \in tmux.live \ {name} |-> tmux.cwdOpt[n]],
              toolOpt |-> [n \in tmux.live \ {name} |-> tmux.toolOpt[n]]]
  /\ log' = World.log
  /\ lastOp' = Op("external-kill", "", "")
  /\ UNCHANGED <<cfg, m, cwd, pc, uiRunning, quitPending, attached>>

RegistrySetOption(name, opt) ==
  /\ name \in tmux.live
  /\ tmux.toolOpt[name] # opt
  /\ tmux' = [tmux EXCEPT !.toolOpt[name] = opt]
  /\ log' = World.log
  /\ lastOp' = Op("external-option", "", "")
  /\ UNCHANGED <<cfg, m, cwd, pc, uiRunning, quitPending, attached>>

RegistryOutside ==
  \/ \E name \in RegistryNames, opt \in ToolOpts : RegistryCreate(name, opt)
  \/ \E name \in RegistryNames : RegistryKill(name)
  \/ \E name \in RegistryNames, opt \in ToolOpts : RegistrySetOption(name, opt)

NextRegistry ==
  \/ RenameKey
  \/ RegistryTick
  \/ RegistryOutside

SpecRegistry == InitRegistry /\ [][NextRegistry]_vars

\* the tool the priority rule gives a live session at the start of a step
ToolByPriority(n) ==
  IF tmux.toolOpt[n] \in Tools THEN tmux.toolOpt[n]
  ELSE IF n \in DOMAIN m.sessionTools THEN m.sessionTools[n]
  ELSE toolFromSessionName(n)

RenameKeepsTool ==
  [][(/\ lastOp'.kind = "key"
      /\ lastOp'.key = "enter"
      /\ lastOp'.from = "modeRenameInput"
      /\ tmux'.live # tmux.live) =>
       LET old == m.renameTarget
           new == m.renameInput
       IN /\ <<"rename", old>> \in log'.cmds
          /\ tmux'.live = (tmux.live \ {old}) \cup {new}
          /\ new \in m'.sessions
          /\ old \notin m'.sessions
          /\ m'.sessionTools[new] = ToolByPriority(old)
          /\ old \notin DOMAIN m'.sessionTools
          /\ old \notin DOMAIN m'.bindings
          /\ m'.mode = "modeHome"]_vars

\* the session codex, a claude session by its stored option, renamed to focus
RenameKeepsToolWitness ==
  /\ lastOp.kind = "key"
  /\ lastOp.key = "enter"
  /\ lastOp.prev = {<<"codex", 0>>}
  /\ m.mode = "modeHome"
  /\ m.homeNotice = "renamed %s to %s"
  /\ Focus \in tmux.live
  /\ Focus \in m.sessions
  /\ <<"codex", 0>> \notin m.sessions
  /\ m.sessionTools[Focus] = "claude"

\* ---- SpecBindings: bindings against sessions stopped and started again
\* outside the UI, in either directory
BindingNames == {<<"codex", 0>>, <<"codex", 2>>}

BindingKeys == {"x", "n", "k", "esc"}

InitBindings == InitWith({DefaultConfig}, TmuxStates(BindingNames, Dirs), {TRUE})

BindingKey == UIStep(BindingKeys, {0}, {DefaultIn.lookup})

\* the bindings the refresh is about to replace: those of a stopped session
\* and those with another directory than the session has now
StaleBindings ==
  {n \in DOMAIN m.bindings : n \notin tmux.live \/ m.bindings[n].Cwd # tmux.cwdOpt[n]}

\* model.Update, tickMsg, with the stale bindings it met kept in lastOp.prev
BindingTick ==
  /\ uiRunning
  /\ ~quitPending
  /\ Apply(refreshBindings(World))
  /\ lastOp' = [Op("tick", "", "") EXCEPT !.prev = StaleBindings]
  /\ UNCHANGED <<cfg, pc, uiRunning, quitPending>>

StartElsewhere == \E name \in BindingNames, dir \in Dirs : ExternalCreate(name, dir)

NextBindings ==
  \/ BindingKey
  \/ BindingTick
  \/ MainLoop
  \/ KillOutside
  \/ StartElsewhere

SpecBindings == InitBindings /\ [][NextBindings]_vars

\* C13: after the reconciliation of a tick, and after that of a key event
\* whose handler issued no tmux command, the sessions with a binding are
\* exactly the known sessions that are running, and every binding carries
\* the directory the running session has now: the binding of a stopped
\* session is gone, a session started again under the name of a stopped one
\* has the directory of the new session
BindingsFollowRunning ==
  (lastOp.kind = "tick" \/ (lastOp.kind = "key" /\ log.cmds = {})) =>
    /\ DOMAIN m.bindings = m.sessions \cap tmux.live
    /\ \A n \in DOMAIN m.bindings :
         m.bindings[n].Running /\ m.bindings[n].Cwd = tmux.cwdOpt[n]

\* a tick met the bindings of two sessions that had stopped: codex-2 is
\* still stopped and has no binding, codex was started again in another
\* directory and is bound to that directory
BindingsFollowRunningWitness ==
  /\ lastOp.kind = "tick"
  /\ lastOp.prev = {<<"codex", 0>>, <<"codex", 2>>}
  /\ <<"codex", 2>> \in m.sessions \ tmux.live
  /\ <<"codex", 2>> \notin DOMAIN m.bindings
  /\ <<"codex", 0>> \in tmux.live
  /\ m.bindings[<<"codex", 0>>].Cwd = tmux.cwdOpt[<<"codex", 0>>]
  /\ m.bindings[<<"codex", 0>>].Cwd # cwd

\* ---- SpecTasks: the task-kill picker over the tasks of two sessions
TaskNames == {<<"codex", 0>>, <<"codex", 2>>}

InitTasks == InitWith({DefaultConfig}, TmuxStates(TaskNames, {"/a"}), {TRUE})

\* model.Update, tea.KeyMsg, with the outcome of the signal kept in lastOp
TaskKeyEvent(key, in) ==
  /\ uiRunning
  /\ ~quitPending
  /\ LET w == updateHome(World, key, in)
     IN /\ InBounds(w)
        /\ Apply(w)
        /\ quitPending' = w.quit
  /\ lastOp' = [kind |-> "key", key |-> key, from |-> m.mode, dir |-> "",
                prev |-> {}, signal |-> in.signal]
  /\ UNCHANGED <<cfg, pc, uiRunning>>

\* e is the letter after the last slot the picker can have here
TaskKey ==
  \E key \in CASE m.mode = "modePickKillTask" -> {"a", "b", "d", "e", "esc"}
               [] m.mode = "modeKillTool" -> {"t", "esc"}
               [] OTHER -> {"k", "t"} :
    \E in \in Inputs(0..(2 * MaxTasks), {DefaultIn.lookup}) : TaskKeyEvent(key, in)

NextTasks ==
  \/ TaskKey
  \/ UITick
  \/ RunUI
  \/ KillOutside

SpecTasks == InitTasks /\ [][NextTasks]_vars

\* C15: in the task-kill picker the letter of a slot sends one TERM signal,
\* to the pid of that slot and to no other, issues no tmux command and
\* returns the mode to home whether the signal succeeded or failed; the
\* notice reports the kill or the failure
TaskKillSignalsOnePid ==
  [][(/\ lastOp'.kind = "key"
      /\ lastOp'.from = "modePickKillTask"
      /\ lastOp'.key \in DOMAIN m.taskKillTargets) =>
       /\ log'.signals = <<m.taskKillTargets[lastOp'.key].PID>>
       /\ log'.cmds = {}
       /\ tmux' = tmux
       /\ m'.mode = "modeHome"
       /\ m'.homeNotice = IF lastOp'.signal = "fail" THEN "failed to kill pid %d: %v"
                          ELSE "killed pid %d"
       /\ ~quitPending'
       /\ ~m'.shouldAttach]_vars

\* the fourth of four tasks, second task of codex-2, signalled in vain
TaskKillSignalsOnePidWitness ==
  /\ lastOp.kind = "key"
  /\ lastOp.from = "modePickKillTask"
  /\ lastOp.key = "d"
  /\ lastOp.signal = "fail"
  /\ DOMAIN m.taskKillTargets = {"a", "b", "c", "d"}
  /\ log.signals = <<TaskPID(<<"codex", 2>>, 2)>>
  /\ m.taskKillTargets["d"].PID = TaskPID(<<"codex", 2>>, 2)
  /\ m.mode = "modeHome"
  /\ m.homeNotice = "failed to kill pid %d: %v"

\* ---- SpecActivity: Session.UpdateActivity on every tick.  Time is counted
\* in ticks of one second (tickCmd sleeps one second): tmux.quietFor is the
\* time since the pane last changed, m.activity[n].idleFor is
\* time.Since(lastActivity); both stop counting at MaxQuiet, which is also
\* the age of the zero time a new wrapper has.  A pane shows one of two
\* contents, the empty string of a new wrapper is 0.
IdleTimeout == 5

Watched == <<"codex", 0>>

capturePane(w, name, outcome) ==
  IF outcome = "fail" THEN [out |-> 0, err |-> TRUE]
  ELSE [out |-> w.tmux.pane[name], err |-> FALSE]

\* the wrapper after the call and the value returned
UpdateActivity(w, name, outcome) ==
  LET s == w.m.activity[name]
      current == capturePane(w, name, outcome)
  IN IF ~SessionExists(w, name) THEN [w |-> w, active |-> FALSE]
     ELSE IF current.err THEN [w |-> w, active |-> s.idleFor < IdleTimeout]
     ELSE IF current.out # s.lastCapture
       THEN [w |-> [w EXCEPT !.m.activity[name] = [lastCapture |-> current.out,
                                                   idleFor |-> 0]],
             active |-> TRUE]
     ELSE [w |-> w, active |-> s.idleFor < IdleTimeout]

Later(age) == Min(age + 1, MaxQuiet)

\* one second passes
Elapsed(w) ==
  [w EXCEPT !.tmux.quietFor = [n \in DOMAIN @ |-> Later(@[n])],
            !.m.activity = [n \in DOMAIN @ |-> [@[n] EXCEPT !.idleFor = Later(@)]]]

InitActivity ==
  /\ cfg = DefaultConfig
  /\ \E live \in SUBSET {Watched}, q \in 0..MaxQuiet :
       /\ tmux = [live |-> live,
                  cwdOpt |-> [n \in live |-> "/a"],
                  pane |-> [n \in {Watched} |-> 1],
                  quietFor |-> [n \in {Watched} |-> q]]
       /\ m = [sessions |-> AllSessions(cfg) \cup live,
               bindings |-> EmptyBindings,
               mode |-> "modeHome",
               activity |-> [n \in {Watched} |-> [lastCapture |-> 0, idleFor |-> MaxQuiet]]]
  /\ cwd = "/a"
  /\ log = [cmds |-> {}, signals |-> <<>>]
  /\ lastOp = [kind |-> "init", key |-> "", from |-> "modeHome", dir |-> "", prev |-> {}]
  /\ pc = "run"
  /\ uiRunning = TRUE
  /\ quitPending = FALSE
  /\ attached = NoName

\* a second passes, then model.Update, tickMsg: the bindings are refreshed
\* and the activity of the session is updated; active is the value returned
ActivityTick ==
  \E outcome \in {"ok", "fail"} :
    LET r == UpdateActivity(refreshBindings(Elapsed(World)), Watched, outcome)
    IN /\ Apply(r.w)
       /\ lastOp' = [kind |-> "tick", key |-> "", from |-> m.mode, dir |-> "",
                     prev |-> {}, active |-> r.active]
       /\ UNCHANGED <<cfg, pc, uiRunning, quitPending>>

\* the program in the pane writes: the visible lines change
PaneChange ==
  /\ Watched \in tmux.live
  /\ tmux' = [tmux EXCEPT !.pane[Watched] = 3 - @, !.quietFor[Watched] = 0]
  /\ log' = World.log
  /\ lastOp' = Op("pane-change", "", "")
  /\ UNCHANGED <<cfg, m, cwd, pc, uiRunning, quitPending, attached>>

PaneStart ==
  /\ Watched \notin tmux.live
  /\ tmux' = [tmux EXCEPT !.live = {Watched},
                          !.cwdOpt = [n \in {Watched} |-> "/a"],
                          !.pane[Watched] = 1,
                          !.quietFor[Watched] = 0]
  /\ log' = World.log
  /\ lastOp' = Op("external-create", "", "")
  /\ UNCHANGED <<cfg, m, cwd, pc, uiRunning, quitPending, attached>>

NextActivity ==
  \/ ActivityTick
  \/ PaneChange
  \/ PaneStart
  \/ KillOutside

SpecActivity == InitActivity /\ [][NextActivity]_vars

\* C16: a tick that finds the pane of a running session unchanged for
\* idle_timeout + 3 s or longer returns idle for it
QuietSessionIdle ==
  (/\ lastOp.kind = "tick"
   /\ Watched \in tmux.live
   /\ tmux.quietFor[Watched] >= IdleTimeout + 3) => ~lastOp.active

\* ---- SpecPoll: the interval to the next activity poll.  Durations are
\* counted in half seconds.
Second == 2

\* the same intervals with the boundary values in the faster bucket
nextActivityPollIntervalInclusive(idleFor) ==
  IF idleFor <= 5 * Second THEN 1 * Second
  ELSE IF idleFor <= 30 * Second THEN 2 * Second
  ELSE IF idleFor <= 120 * Second THEN 5 * Second
  ELSE 10 * Second

nextActivityPollInterval(idleFor) ==
  IF idleFor < 5 * Second THEN 1 * Second
  ELSE IF idleFor < 30 * Second THEN 2 * Second
  ELSE IF idleFor < 120 * Second THEN 5 * Second
  ELSE 10 * Second

\* the time since the last activity, from 0 to MaxIdleFor half seconds
InitPoll ==
  /\ cfg = DefaultConfig
  /\ tmux = [live |-> {}, cwdOpt |-> [n \in {} |-> ""]]
  /\ m = initialModel(cfg, {}, TRUE)
  /\ cwd = "/a"
  /\ log = [cmds |-> {}, signals |-> <<>>]
  /\ \E x \in 0..MaxIdleFor :
       lastOp = [kind |-> "idle-for", key |-> "", from |-> "modeHome", dir |-> "",
                 prev |-> {}, idleFor |-> x]
  /\ pc = "run"
  /\ uiRunning = TRUE
  /\ quitPending = FALSE
  /\ attached = NoName

PollInterval ==
  /\ lastOp.kind = "idle-for"
  /\ lastOp' = [kind |-> "poll-interval", key |-> "", from |-> m.mode, dir |-> "",
                prev |-> {}, idleFor |-> lastOp.idleFor,
                interval |-> nextActivityPollInterval(lastOp.idleFor)]
  /\ UNCHANGED <<cfg, m, tmux, cwd, log, pc, uiRunning, quitPending, attached>>

NextPoll ==
  \/ PollInterval

SpecPoll == InitPoll /\ [][NextPoll]_vars

\* C17: the interval to the next poll is 1 s when the last activity is less
\* than 5 s old, 2 s from 5 s to less than 30 s, 5 s from 30 s to less than
\* 2 min and 10 s from 2 min on: 5 s, 30 s and 2 min belong to the slower
\* interval
PollIntervalBuckets ==
  lastOp.kind = "poll-interval" =>
    LET x == lastOp.idleFor
        r == lastOp.interval
    IN /\ (0 <= x /\ x < 5 * Second) => r = 1 * Second
       /\ (5 * Second <= x /\ x < 30 * Second) => r = 2 * Second
       /\ (30 * Second <= x /\ x < 120 * Second) => r = 5 * Second
       /\ 120 * Second <= x => r = 10 * Second

\* exactly 30 s since the last activity: the next poll is 5 s away
PollIntervalBucketsWitness ==
  /\ lastOp.kind = "poll-interval"
  /\ lastOp.idleFor = 30 * Second
  /\ lastOp.interval = 5 * Second

\* ---- SpecDirJump: the directory jump, typed and walked key by key
DirJumpNames == {<<"codex", 0>>}

InitDirJump == InitWith({DefaultConfig}, TmuxStates(DirJumpNames, {"/a"}), {TRUE})

\* model.Update, tea.KeyMsg, with the answer of the lookup kept in lastOp
DirKeyEvent(key, in) ==
  /\ uiRunning
  /\ ~quitPending
  /\ LET w == updateHome(World, key, in)
     IN /\ InBounds(w)
        /\ Apply(w)
        /\ quitPending' = w.quit
  /\ lastOp' = [kind |-> "key", key |-> key, from |-> m.mode, dir |-> "",
                prev |-> {}, lookup |-> in.lookup]
  /\ UNCHANGED <<cfg, pc, uiRunning>>

\* fasder fails, finds nothing, or ranks the two directories either way
DirLookups ==
  LookupResults \cup {[err |-> FALSE, dirs |-> <<>>],
                      [err |-> FALSE, dirs |-> <<"/b", "/a">>]}

DirJumpKey ==
  \E key \in CASE m.mode = "modeDirJump" ->
                    {"d", "1", "enter", "up", "down", "backspace", "esc"}
               [] OTHER -> {"z"} :
    \E in \in Inputs({0}, DirLookups) : DirKeyEvent(key, in)

NextDirJump ==
  \/ DirJumpKey
  \/ UITick
  \/ RunUI

SpecDirJump == InitDirJump /\ [][NextDirJump]_vars

MaxProcs == 3

Word(s) == <<s>>

\* filepath.Base of a word
Base(word) == word[Len(word)]

\* strings.ToLower, segment by segment
LowerSeg(seg) == CASE seg = "ZSH" -> "zsh" [] seg = "Claude" -> "claude" [] OTHER -> seg

ToLower(command) ==
  [i \in DOMAIN command |-> [j \in DOMAIN command[i] |-> LowerSeg(command[i][j])]]

HasSeg(cmd, seg) == \E i \in DOMAIN cmd : seg \in Range(cmd[i])

\* a run of whole words, the first of them at position i
RunAt(cmd, i, run) ==
  /\ i >= 1
  /\ i + Len(run) - 1 <= Len(cmd)
  /\ \A j \in 1..Len(run) : cmd[i + j - 1] = Word(run[j])

\* the run anywhere, its first word possibly the end of a longer word or path
\* and its last the start of one
HasRun(cmd, run) ==
  \E i \in DOMAIN cmd :
    /\ i + Len(run) - 1 <= Len(cmd)
    /\ Base(cmd[i]) = run[1]
    /\ \A j \in 2..Len(run) :
         IF j = Len(run) THEN cmd[i + j - 1][1] = run[j]
         ELSE cmd[i + j - 1] = Word(run[j])

\* the run with a word before it and a word after it
HasRunInside(cmd, run) ==
  \E i \in 2..Len(cmd) : RunAt(cmd, i, run) /\ i + Len(run) <= Len(cmd)

\* a word that ends with /dir/name, and a word after it
HasPathTo(cmd, dir, name, more) ==
  \E i \in DOMAIN cmd :
    /\ Len(cmd[i]) >= 3
    /\ cmd[i][Len(cmd[i]) - 1] = dir
    /\ Base(cmd[i]) = name
    /\ RunAt(cmd, i + 1, more)
    /\ i + Len(more) + 1 <= Len(cmd)

isNoiseCommand(command) ==
  \E cmd \in {ToLower(command)} :
     \/ Len(cmd) = 0
     \/ Base(cmd[1]) \in {"claude", "codex", "agent"}
     \/ Base(cmd[1]) \in {"gopls", "caffeinate"}
     \/ \E i \in DOMAIN cmd :
          /\ i + 1 <= Len(cmd)
          /\ Base(cmd[i]) \in {"pb.test", "tmux.test"}
          /\ (i > 1 \/ Len(cmd[i]) > 1)
     \/ RunAt(cmd, 1, <<"ps", "-axo">>) /\ Len(cmd) > 2
     \/ HasRunInside(cmd, <<"ps", "-axo">>)
     \/ \E i \in DOMAIN cmd :
          /\ Base(cmd[i]) = "go"
          /\ RunAt(cmd, i + 1, <<"run">>)
          /\ i + 3 <= Len(cmd)
          /\ cmd[i + 2] = <<".", "cmd", "pb">>
          /\ cmd[i + 3][1] = "tasks"
     \/ \E i \in DOMAIN cmd :
          /\ Len(cmd[i]) >= 3
          /\ cmd[i][Len(cmd[i]) - 1] = "exe"
          /\ Base(cmd[i]) = "pb"
          /\ i + 1 <= Len(cmd)
          /\ cmd[i + 1][1] = "tasks"
     \/ \E i \in DOMAIN cmd :
          /\ Base(cmd[i]) = "go"
          /\ RunAt(cmd, i + 1, <<"test">>)
          /\ i + 3 <= Len(cmd)
          /\ \/ /\ cmd[i + 2] = <<".", "internal", "tmux">>
                /\ SubSeq(cmd[i + 3], 1, 3) = <<".", "cmd", "pb">>
             \/ /\ cmd[i + 2] = <<".", "cmd", "pb">>
                /\ SubSeq(cmd[i + 3], 1, 3) = <<".", "internal", "tmux">>
     \/ HasRun(cmd, <<"gopls", "**", "telemetry", "**">>)
     \/ HasSeg(cmd, "fork-ts-checker-webpack-plugin")
     \/ \E i \in DOMAIN cmd : \E j \in 1..(Len(cmd[i]) - 4) :
          SubSeq(cmd[i], j, j + 4) = <<"nx", "src", "daemon", "server", "start.js">>
     \/ /\ \E i \in DOMAIN cmd : \E j \in 1..(Len(cmd[i]) - 1) : cmd[i][j] = "@esbuild"
        /\ HasSeg(cmd, "--service=")
     \/ /\ HasSeg(cmd, "docker-buildx")
        /\ HasRunInside(cmd, <<"bake">>)
     \/ HasRun(cmd, <<"docker-compose", "compose", "up">>)
     \/ HasSeg(cmd, "worker.js")
     \/ \E i \in DOMAIN cmd : \E j \in 2..(Len(cmd[i]) - 1) : cmd[i][j] = "worker"
     \/ HasSeg(cmd, "--inspect=localhost:")

isShellWrapper(command) ==
  LET cmd == ToLower(command)
  IN /\ Len(cmd) > 0
     /\ Base(cmd[1]) \in {"sh", "bash", "zsh", "fish"}

taskScore(command) ==
  LET cmd == ToLower(command)
  IN IF isNoiseCommand(command) THEN -1
     ELSE IF Len(cmd) = 0 THEN -1
     ELSE IF Base(cmd[1]) = "make" THEN 100
     ELSE IF HasPathTo(cmd, ".bin", "nx", <<"serve">>) THEN 98
     ELSE IF HasRunInside(cmd, <<"nx", "serve">>) THEN 95
     ELSE IF HasRun(cmd, <<"npm", "exec", "nx", "serve">>)
             \/ HasRun(cmd, <<"npx", "nx", "serve">>) THEN 90
     ELSE IF HasRun(cmd, <<"npm", "exec">>) THEN 60
     ELSE IF isShellWrapper(command) THEN 10
     ELSE 50

\* the zero Task, and the depth no node of a tree reaches
NoTask == [PID |-> 0, PPID |-> 0, State |-> "", Command |-> <<>>]

farDepth == 1048576

\* children[pid], in the order of the task list
childrenOf(tasks, pid) == SelectSeq(tasks, LAMBDA t : t.PPID = pid)

\* sort.Slice by PID, of tasks with distinct PIDs
SortByPID(S) ==
  [i \in 1..Cardinality(S) |->
     CHOOSE t \in S : Cardinality({u \in S : u.PID < t.PID}) = i - 1]

\* the loop of chooseRepresentative over its queue (node, score, q and b
\* are bound variables, so that each is evaluated once)
RECURSIVE scanQueue(_, _, _)
scanQueue(queue, best, tasks) ==
  IF queue = <<>> THEN best
  ELSE CHOOSE r \in UNION {UNION {
         LET better ==
               \/ score > best.score
               \/ /\ score = best.score
                  /\ isShellWrapper(best.task.Command)
                  /\ ~isShellWrapper(node.task.Command)
               \/ score = best.score /\ node.depth < best.depth
             kids == childrenOf(tasks, node.task.PID)
         IN {scanQueue(q, b, tasks) :
               q \in {Tail(queue) \o [k \in DOMAIN kids |->
                                        [task |-> kids[k], depth |-> node.depth + 1]]},
               b \in {IF better
                      THEN [score |-> score, depth |-> node.depth, task |-> node.task]
                      ELSE best}} :
         score \in {taskScore(node.task.Command)}} : node \in {Head(queue)}} : TRUE

chooseRepresentative(root, tasks) ==
  LET best == scanQueue(<<[task |-> root, depth |-> 0]>>,
                        [score |-> -1, depth |-> farDepth, task |-> NoTask], tasks)
  IN IF best.score < 0 THEN [ok |-> FALSE, task |-> NoTask]
     ELSE [ok |-> TRUE, task |-> best.task]

\* the representatives of a sequence of tasks, those without one left out
RECURSIVE repsOf(_, _)
repsOf(kids, tasks) ==
  IF kids = <<>> THEN <<>>
  ELSE LET rep == chooseRepresentative(Head(kids), tasks)
       IN (IF rep.ok THEN <<rep.task>> ELSE <<>>) \o repsOf(Tail(kids), tasks)

\* the split by child without the return to the root when no child has a
\* representative
collectRepresentativesNoFallback(root, tasks) ==
  LET kids == childrenOf(tasks, root.PID)
  IN IF Len(kids) > 1 \/ isShellWrapper(root.Command)
     THEN repsOf(kids, tasks) ELSE repsOf(<<root>>, tasks)

collectRepresentatives(root, tasks) ==
  LET kids == childrenOf(tasks, root.PID)
      reps == IF Len(kids) > 1 \/ isShellWrapper(root.Command)
              THEN repsOf(kids, tasks) ELSE <<>>
  IN IF Len(reps) > 0 THEN reps ELSE repsOf(<<root>>, tasks)

\* the infrastructure of the earlier filter: shells, agents, gopls
isInfrastructureCommand(command) ==
  LET cmd == ToLower(command)
  IN \/ Len(cmd) = 0
     \/ Base(cmd[1]) \in {"sh", "bash", "zsh", "fish", "claude", "codex", "agent"}
     \/ Base(cmd[1]) = "gopls"
     \/ HasRun(cmd, <<"gopls", "**", "telemetry", "**">>)

\* the earlier filter: the leaves that are not infrastructure, or every leaf
\* when all of them are
filterUserTasksLeaves(tasks) ==
  LET leaf == SelectSeq(tasks, LAMBDA t : childrenOf(tasks, t.PID) = <<>>)
      filtered == SelectSeq(leaf, LAMBDA t : ~isInfrastructureCommand(t.Command))
  IN IF Len(filtered) > 0 THEN filtered ELSE leaf

filterUserTasks(tasks) ==
  LET pids == {tasks[i].PID : i \in DOMAIN tasks}
      roots == SortByPID({tasks[i] : i \in {j \in DOMAIN tasks : tasks[j].PPID \notin pids}})
      \* selected: a task is taken once
      out == UNION {Range(collectRepresentatives(roots[r], tasks)) : r \in DOMAIN roots}
  IN SortByPID(out)

\* the commands of the process trees
Sleep == <<Word("sleep"), Word("300")>>
ZshSleep == <<<<"", "bin", "ZSH">>, Word("-c"), Word("sleep"), Word("300")>>
BashThenNpm ==
  <<Word("bash"), Word("-c"), Word("sleep"), Word("300"), Word("&&"),
    Word("npm"), Word("exec"), Word("foo")>>
Claude == <<Word("claude"), Word("--continue")>>
NodeWorker == <<Word("node"), <<"", "repo", "worker.js">>>>

CommandPool == {Sleep, ZshSleep, BashThenNpm, Claude, NodeWorker}

\* the parents of n processes: 0 is the process of the pane, which is no task
RECURSIVE Up(_, _, _)
Up(ppid, i, k) == IF k = 0 \/ i = 0 THEN i ELSE Up(ppid, ppid[i], k - 1)

Forests(n) ==
  {ppid \in [1..n -> 0..n] : \A i \in 1..n : Up(ppid, i, n) = 0}

\* collectDescendantTasks: the descendants of the pane, sorted by PID
TaskList(n, ppid, command) ==
  [i \in 1..n |-> [PID |-> i, PPID |-> ppid[i], State |-> "S", Command |-> command[i]]]

InitFilter ==
  /\ cfg = DefaultConfig
  /\ tmux = [live |-> {}, cwdOpt |-> [n \in {} |-> ""]]
  /\ m = initialModel(cfg, {}, TRUE)
  /\ cwd = "/a"
  /\ log = [cmds |-> {}, signals |-> <<>>]
  /\ \E n \in 0..MaxProcs : \E ppid \in Forests(n) : \E command \in [1..n -> CommandPool] :
       lastOp = [kind |-> "tasks", key |-> "", from |-> "modeHome", dir |-> "",
                 prev |-> {}, tasks |-> TaskList(n, ppid, command)]
  /\ pc = "run"
  /\ uiRunning = TRUE
  /\ quitPending = FALSE
  /\ attached = NoName

\* SessionUserTasks: the filter applied to the tasks of a session
FilterTasks ==
  /\ lastOp.kind = "tasks"
  /\ lastOp' = [kind |-> "user-tasks", key |-> "", from |-> m.mode, dir |-> "",
                prev |-> {}, tasks |-> lastOp.tasks,
                out |-> filterUserTasks(lastOp.tasks)]
  /\ UNCHANGED <<cfg, m, tmux, cwd, log, pc, uiRunning, quitPending, attached>>

NextFilter ==
  \/ FilterTasks

SpecFilter == InitFilter /\ [][NextFilter]_vars

\* the tasks below a task in the tree
DescendantsOf(tasks, t) ==
  UNION {{tasks[i] : i \in {j \in DOMAIN tasks :
                              /\ tasks[j].PID # t.PID
                              /\ \E k \in 1..Len(tasks) : Up(ppid, j, k) = t.PID}} :
         ppid \in {[x \in DOMAIN tasks |-> tasks[x].PPID]}}

\* C19: no task the filter returns is a shell wrapper (sh, bash, zsh, fish)
\* that has, below it in the tree, a command that is neither noise nor
\* itself a shell wrapper
NoWrapperOverTask ==
  lastOp.kind = "user-tasks" =>
    \A i \in DOMAIN lastOp.out :
      isShellWrapper(lastOp.out[i].Command) =>
        \A d \in DescendantsOf(lastOp.tasks, lastOp.out[i]) :
          isNoiseCommand(d.Command) \/ isShellWrapper(d.Command)

\* C20: no task the filter returns is a noise command, whatever the tree,
\* and a tree of noise commands only gives the empty list
NoNoiseReturned ==
  lastOp.kind = "user-tasks" =>
    /\ \A i \in DOMAIN lastOp.out :
         /\ lastOp.out[i] \in Range(lastOp.tasks)
         /\ ~isNoiseCommand(lastOp.out[i].Command)
    /\ (\A i \in DOMAIN lastOp.tasks : isNoiseCommand(lastOp.tasks[i].Command)) =>
         lastOp.out = <<>>

\* an agent with a worker below it and a second worker below that: nothing
\* is returned, while an agent over a sleep returns the sleep
NoNoiseReturnedWitness ==
  /\ lastOp.kind = "user-tasks"
  /\ Len(lastOp.tasks) = 3
  /\ lastOp.tasks[1].Command = Claude /\ lastOp.tasks[1].PPID = 0
  /\ lastOp.tasks[2].Command = NodeWorker /\ lastOp.tasks[2].PPID = 1
  /\ lastOp.tasks[3].Command = NodeWorker /\ lastOp.tasks[3].PPID = 2
  /\ lastOp.out = <<>>

\* a task and the tasks below it
TreeOf(tasks, t) == {t} \cup DescendantsOf(tasks, t)

\* the tasks of a set that are no noise
UserTasksIn(S) == {t \in S : ~isNoiseCommand(t.Command)}

\* exactly one task of the tree of t is returned, a task of the highest
\* score in that tree, or none when the tree is all noise
OneBestOf(tasks, out, t) ==
  \A tree \in {TreeOf(tasks, t)} : \A picked \in {Range(out) \cap tree} :
    IF UserTasksIn(tree) = {} THEN picked = {}
    ELSE /\ Cardinality(picked) = 1
         /\ \A x \in picked : \A y \in tree :
              taskScore(x.Command) >= taskScore(y.Command)

RootsOf(tasks) ==
  {tasks[i] : i \in {j \in DOMAIN tasks :
                       tasks[j].PPID \notin {tasks[k].PID : k \in DOMAIN tasks}}}

SplitRoot(tasks, root) ==
  Len(childrenOf(tasks, root.PID)) > 1 \/ isShellWrapper(root.Command)

\* C21 as stated: a root with several children, or a shell-wrapper root,
\* gives one representative for each child, taken from the tree of that child,
\* and so never the root itself; any other root gives one representative for
\* its whole tree
OnePerChild ==
  lastOp.kind = "user-tasks" =>
    \A root \in RootsOf(lastOp.tasks) :
      IF SplitRoot(lastOp.tasks, root)
      THEN /\ root \notin Range(lastOp.out)
           /\ \A kid \in Range(childrenOf(lastOp.tasks, root.PID)) :
                OneBestOf(lastOp.tasks, lastOp.out, kid)
      ELSE OneBestOf(lastOp.tasks, lastOp.out, root)

\* C21: a root with several children, or a shell-wrapper root, of which some
\* child has a tree that is not all noise gives one representative for each
\* such child, taken from the tree of that child; every other root, a split
\* root whose children are all noise included, gives one representative for
\* its whole tree
OnePerChildOrRoot ==
  lastOp.kind = "user-tasks" =>
    \A root \in RootsOf(lastOp.tasks) :
      LET kids == Range(childrenOf(lastOp.tasks, root.PID))
      IN IF /\ SplitRoot(lastOp.tasks, root)
            /\ \E kid \in kids : UserTasksIn(TreeOf(lastOp.tasks, kid)) # {}
         THEN /\ root \notin Range(lastOp.out)
              /\ \A kid \in kids : OneBestOf(lastOp.tasks, lastOp.out, kid)
         ELSE OneBestOf(lastOp.tasks, lastOp.out, root)

\* a plain command over two agents is returned itself, and under a second
\* root two children give one task each
OnePerChildOrRootWitness ==
  /\ lastOp.kind = "user-tasks"
  /\ Len(lastOp.tasks) = 3
  /\ lastOp.tasks[1].Command = Sleep /\ lastOp.tasks[1].PPID = 0
  /\ lastOp.tasks[2].Command = Claude /\ lastOp.tasks[2].PPID = 1
  /\ lastOp.tasks[3].Command = Claude /\ lastOp.tasks[3].PPID = 1
  /\ lastOp.out = <<lastOp.tasks[1]>>

\* ---- SpecTasksCommand: `pb tasks`, step by step.  The environment holds
\* PB_LEVEL or not; tmux.sockets gives the sessions of each server socket.
Unset == [set |-> FALSE, value |-> ""]

Getenv(env) == IF env.set THEN env.value ELSE ""

Setenv(env, value) == [set |-> TRUE, value |-> value]

Unsetenv(env) == Unset

\* the socket of a nesting level: pocketbot, or pocketbot-<level>
SocketOf(level) == <<"pocketbot", level>>

Levels == {"", "1", "2"}

Envs == {Unset} \cup {Setenv(Unset, l) : l \in Levels}

SocketNames == {<<"claude", 0>>, Focus}

\* tmux.ListSessions under the PB_LEVEL of the moment
listSessions(w) == w.tmux.sockets[SocketOf(Getenv(w.tmux.env))]

\* printToolTasksForSocket: one line for each tool session, failed holding
\* the sessions whose tasks cannot be read
printToolTasksForSocket(w, failed) ==
  LET names == SortNames(listSessions(w))
      tools == SelectSeq(names, LAMBDA n : toolFromSessionName(n) \in Tools)
  IN [seen |-> Len(tools) > 0,
      lines |-> [i \in DOMAIN tools |->
                   [name |-> tools[i],
                    text |-> IF tools[i] \in failed THEN "error reading tasks"
                             ELSE "task process(es)"]]]

\* the fallback that leaves PB_LEVEL unset
restoreLevelForgotten(env, level) == env

\* os.Setenv("PB_LEVEL", level) after the second pass
restoreLevel(env, level) == Setenv(env, level)

InitTasksCommand ==
  /\ cfg = DefaultConfig
  /\ \E env \in Envs : \E sockets \in [{SocketOf(l) : l \in Levels} -> SUBSET SocketNames] :
       /\ tmux = [live |-> {}, cwdOpt |-> [n \in {} |-> ""],
                  env |-> env, sockets |-> sockets]
       /\ lastOp = [kind |-> "tasks", key |-> "", from |-> "modeHome", dir |-> "",
                    prev |-> {}, entry |-> env, level |-> "", found |-> FALSE,
                    passes |-> <<>>, out |-> <<>>]
  /\ m = initialModel(cfg, {}, TRUE)
  /\ cwd = "/a"
  /\ log = [cmds |-> {}, signals |-> <<>>]
  /\ pc = "printToolTasks"
  /\ uiRunning = FALSE
  /\ quitPending = FALSE
  /\ attached = NoName

NoneRunning == [name |-> NoName, text |-> "No claude/codex/cursor sessions are running."]

\* printToolTasks, the pass over the socket of the level
FirstPass ==
  /\ pc = "printToolTasks"
  /\ \E failed \in SUBSET listSessions(World) :
       LET pass == printToolTasksForSocket(World, failed)
       IN /\ lastOp' = [lastOp EXCEPT !.kind = "first-pass",
                                      !.passes = Append(@, tmux.env),
                                      !.out = @ \o pass.lines]
          /\ pc' = IF pass.seen THEN "return" ELSE "fallback"
  /\ UNCHANGED <<cfg, m, tmux, cwd, log, uiRunning, quitPending, attached>>

\* printToolTasks, nested: PB_LEVEL is read and unset
ClearLevel ==
  /\ pc = "fallback"
  /\ Getenv(tmux.env) # ""
  /\ lastOp' = [lastOp EXCEPT !.kind = "unset", !.level = Getenv(tmux.env)]
  /\ tmux' = [tmux EXCEPT !.env = Unsetenv(@)]
  /\ pc' = "second"
  /\ UNCHANGED <<cfg, m, cwd, log, uiRunning, quitPending, attached>>

\* printToolTasks, the pass over the root socket
SecondPass ==
  /\ pc = "second"
  /\ \E failed \in SUBSET listSessions(World) :
       LET pass == printToolTasksForSocket(World, failed)
       IN lastOp' = [lastOp EXCEPT !.kind = "second-pass",
                                   !.passes = Append(@, tmux.env),
                                   !.found = pass.seen,
                                   !.out = @ \o pass.lines]
  /\ pc' = "restore"
  /\ UNCHANGED <<cfg, m, tmux, cwd, log, uiRunning, quitPending, attached>>

\* printToolTasks, PB_LEVEL set again
RestoreLevel ==
  /\ pc = "restore"
  /\ tmux' = [tmux EXCEPT !.env = restoreLevel(@, lastOp.level)]
  /\ lastOp' = [lastOp EXCEPT !.kind = "setenv"]
  /\ pc' = IF lastOp.found THEN "return" ELSE "none"
  /\ UNCHANGED <<cfg, m, cwd, log, uiRunning, quitPending, attached>>

\* printToolTasks, nothing found on any socket asked
PrintNone ==
  /\ \/ pc = "none"
     \/ pc = "fallback" /\ Getenv(tmux.env) = ""
  /\ lastOp' = [lastOp EXCEPT !.kind = "none", !.out = Append(@, NoneRunning)]
  /\ pc' = "return"
  /\ UNCHANGED <<cfg, m, tmux, cwd, log, uiRunning, quitPending, attached>>

NextTasksCommand ==
  \/ FirstPass
  \/ ClearLevel
  \/ SecondPass
  \/ RestoreLevel
  \/ PrintNone

SpecTasksCommand == InitTasksCommand /\ [][NextTasksCommand]_vars

ToolSessionsOn(level) ==
  {n \in tmux.sockets[SocketOf(level)] : toolFromSessionName(n) \in Tools}

\* C22: when `pb tasks` returns, PB_LEVEL is as it was on entry, set or
\* unset, whatever the passes found or failed to read; run nested with no
\* tool session on the socket of the level, it has made a second pass with
\* PB_LEVEL unset and printed the tool sessions of the root socket
TasksFallbackRestoresLevel ==
  pc = "return" =>
    /\ tmux.env = lastOp.entry
    /\ (Getenv(lastOp.entry) # "" /\ ToolSessionsOn(Getenv(lastOp.entry)) = {}) =>
         /\ lastOp.passes = <<lastOp.entry, Unset>>
         /\ {lastOp.out[i].name : i \in DOMAIN lastOp.out} =
              IF ToolSessionsOn("") = {} THEN {NoName} ELSE ToolSessionsOn("")
    /\ (Getenv(lastOp.entry) = "" \/ ToolSessionsOn(Getenv(lastOp.entry)) # {}) =>
         lastOp.passes = <<lastOp.entry>>

\* level 1 with only a custom session on its socket: the claude session of
\* the root socket is printed, its tasks unreadable, and PB_LEVEL is 1 again
TasksFallbackRestoresLevelWitness ==
  /\ pc = "return"
  /\ lastOp.entry = Setenv(Unset, "1")
  /\ tmux.env = Setenv(Unset, "1")
  /\ tmux.sockets[SocketOf("1")] = {Focus}
  /\ lastOp.passes = <<Setenv(Unset, "1"), Unset>>
  /\ lastOp.out = <<[name |-> <<"claude", 0>>, text |-> "error reading tasks"]>>

\* ---- SpecCustom: one custom session, dev, under each key the validation
\* accepts for it here
\* model.Update, tea.KeyMsg, with what the handler read kept in lastOp
SeenKeyEvent(key, in) ==
  /\ uiRunning
  /\ ~quitPending
  /\ LET w == updateHome(World, key, in)
     IN /\ InBounds(w)
        /\ Apply(w)
        /\ quitPending' = w.quit
  /\ lastOp' = [kind |-> "key", key |-> key, from |-> m.mode, dir |-> "",
                prev |-> {}, in |-> in]
  /\ UNCHANGED <<cfg, pc, uiRunning>>

CustomKeys == {"v", "n", "t", "u"}

CustomConfigs ==
  {c \in {[DefaultConfig EXCEPT !.Sessions = {[Name |-> <<"dev", 0>>, Key |-> k]},
                                !.Enabled["cursor"] = e] :
            k \in CustomKeys, e \in BOOLEAN} : Validate(c)}

InitCustom == InitWith(CustomConfigs, TmuxStates(CustomNames, {"/a"}), {TRUE})

CustomKey ==
  \E key \in CustomKeys \cup {"esc"} :
    \E in \in Inputs({0}, {DefaultIn.lookup}) : SeenKeyEvent(key, in)

NextCustom ==
  \/ CustomKey
  \/ UITick
  \/ MainLoop
  \/ KillOutside

SpecCustom == InitCustom /\ [][NextCustom]_vars

\* C23: at home the key of a custom session of the configuration sets an
\* attach request for that session, after creating it when it is not running
\* and tmux accepts the creation, whatever the letter of the key
CustomKeyStartsSession ==
  [][\A s \in cfg.Sessions :
       (/\ lastOp'.kind = "key"
        /\ lastOp'.from = "modeHome"
        /\ lastOp'.key = s.Key
        /\ (s.Name \in tmux.live \/ lastOp'.in.create = "ok")) =>
         /\ s.Name \in tmux'.live
         /\ m'.shouldAttach
         /\ m'.sessionToAttach = s.Name]_vars

\* ------------------------------------------------ the pending yolo toggle
\* new-tool mode of the newest main.go: y toggles the pending flag, esc and d
\* cancel and clear it, a tool key creates the session with the flag as its
\* yolo option.  m carries newToolYolo and sinceCancel (no y and no creation
\* since the start or the last cancel), tmux the set yolo of the sessions whose
\* yolo option is true.
cancelNewToolKeepsYolo(w) == [cancelMode(w) EXCEPT !.m.sinceCancel = TRUE]

cancelNewTool(w) ==
  [cancelMode(w) EXCEPT !.m.newToolYolo = FALSE, !.m.sinceCancel = TRUE]

\* a tool key in new-tool mode: the session created carries the pending flag;
\* whether the flag outlives the creation is in.keepYolo
createWithYolo(w, key, in) ==
  LET w1 == updateHome(w, key, in)
      made == w1.tmux.live \ w.tmux.live
  IN [w1 EXCEPT !.tmux.yolo = IF w.m.newToolYolo THEN @ \cup made ELSE @ \ made,
                !.m.newToolYolo = IF made = {} \/ in.keepYolo THEN @ ELSE FALSE,
                !.m.sinceCancel = FALSE]

updateYolo(w, key, in) ==
  IF w.m.mode # "modeNewTool" THEN updateHome(w, key, in)
  ELSE IF key = "y"
    THEN [w EXCEPT !.m.newToolYolo = ~@, !.m.sinceCancel = FALSE]
  ELSE IF key \in {"esc", "d"} THEN cancelNewTool(w)
  ELSE createWithYolo(w, key, in)

YoloNames == {<<"claude", 0>>, <<"claude", 2>>, <<"codex", 0>>}

InitYolo ==
  /\ cfg = DefaultConfig
  /\ \E t \in TmuxStates(YoloNames, {"/a"}) : \E Y \in SUBSET t.live :
       /\ tmux = [live |-> t.live, cwdOpt |-> t.cwdOpt, yolo |-> Y]
       /\ \E im \in {initialModel(cfg, t.live, TRUE)} :
            m = [f \in DOMAIN im \cup {"newToolYolo", "sinceCancel"} |->
                   CASE f = "newToolYolo" -> FALSE
                     [] f = "sinceCancel" -> TRUE
                     [] OTHER -> im[f]]
  /\ cwd = "/a"
  /\ log = [cmds |-> {}, signals |-> <<>>]
  /\ lastOp = [kind |-> "init", key |-> "", from |-> "modeHome", dir |-> "", prev |-> {}]
  /\ pc = "loop"
  /\ uiRunning = FALSE
  /\ quitPending = FALSE
  /\ attached = NoName

YoloKeyEvent(key, in) ==
  /\ uiRunning
  /\ ~quitPending
  /\ LET w == updateYolo(World, key, in)
     IN /\ InBounds(w) /\ Apply(w) /\ quitPending' = w.quit
  /\ lastOp' = [kind |-> "key", key |-> key, from |-> m.mode, dir |-> "",
                prev |-> {}, in |-> in, yolo |-> m.newToolYolo]
  /\ UNCHANGED <<cfg, pc, uiRunning>>

YoloInputs ==
  {[f \in DOMAIN DefaultIn \cup {"keepYolo"} |->
      CASE f = "keepYolo" -> k [] f = "create" -> c [] OTHER -> DefaultIn[f]] :
     k \in BOOLEAN, c \in {"ok", "fail"}}

YoloKey ==
  \E key \in IF m.mode = "modeNewTool" THEN {"y", "esc", "d", "c", "x", "q"}
             ELSE IF m.mode = "modeHome" THEN {"n", "c"}
             ELSE {"esc", "a"} :
    \E in \in YoloInputs : YoloKeyEvent(key, in)

NextYolo ==
  \/ YoloKey
  \/ UITick
  \/ MainLoop
  \/ KillOutside

SpecYolo == InitYolo /\ [][NextYolo]_vars

\* C24: in new-tool mode y inverts the pending yolo flag and stays in the
\* mode without a command; esc and d leave for home with the flag false; no
\* step outside a key of new-tool mode changes the flag; a session created
\* from new-tool mode has the yolo option exactly when the flag was set; and
\* the flag is false as long as neither y nor a creation followed the last
\* cancel.
YoloClearedOnCancel ==
  [][/\ m'.sinceCancel => ~m'.newToolYolo
     /\ m'.newToolYolo # m.newToolYolo =>
          lastOp'.kind = "key" /\ lastOp'.from = "modeNewTool"
     /\ (lastOp'.kind = "key" /\ lastOp'.from = "modeNewTool") =>
          /\ lastOp'.key = "y" =>
               /\ m'.newToolYolo = ~m.newToolYolo
               /\ m'.mode = "modeNewTool"
               /\ log'.cmds = {}
               /\ tmux' = tmux
          /\ lastOp'.key \in {"esc", "d"} =>
               /\ m'.mode = "modeHome"
               /\ ~m'.newToolYolo
               /\ tmux' = tmux
          /\ \A n \in tmux'.live \ tmux.live :
               n \in tmux'.yolo <=> m.newToolYolo]_vars

\* esc in new-tool mode while the flag was set: home, the flag cleared
YoloClearedOnCancelWitness ==
  /\ lastOp.kind = "key"
  /\ lastOp.from = "modeNewTool"
  /\ lastOp.key = "esc"
  /\ lastOp.yolo
  /\ m.mode = "modeHome"
  /\ ~m.newToolYolo
  /\ tmux.yolo # {}

\* ---- SpecCapture: Session.UpdateActivity on every tick, with the capture
\* of the tick on record: captured tells whether capture-pane was run,
\* outcome how it ended.  The pane of a session shows content 1 or 2.
InitCapture ==
  /\ cfg = DefaultConfig
  /\ \E live \in SUBSET {Watched}, q \in 0..MaxQuiet, p \in {1, 2} :
       /\ tmux = [live |-> live,
                  cwdOpt |-> [n \in live |-> "/a"],
                  pane |-> [n \in {Watched} |-> p],
                  quietFor |-> [n \in {Watched} |-> q]]
       /\ m = [sessions |-> AllSessions(cfg) \cup live,
               bindings |-> EmptyBindings,
               mode |-> "modeHome",
               activity |-> [n \in {Watched} |-> [lastCapture |-> 0, idleFor |-> MaxQuiet]]]
  /\ cwd = "/a"
  /\ log = [cmds |-> {}, signals |-> <<>>]
  /\ lastOp = [kind |-> "init", key |-> "", from |-> "modeHome", dir |-> "", prev |-> {}]
  /\ pc = "run"
  /\ uiRunning = TRUE
  /\ quitPending = FALSE
  /\ attached = NoName

\* a second passes, then model.Update, tickMsg
CaptureTick ==
  \E outcome \in {"ok", "fail"} :
    LET w == refreshBindings(Elapsed(World))
        r == UpdateActivity(w, Watched, outcome)
    IN /\ Apply(r.w)
       /\ lastOp' = [kind |-> "tick", key |-> "", from |-> m.mode, dir |-> "",
                     prev |-> {}, active |-> r.active,
                     captured |-> SessionExists(w, Watched), outcome |-> outcome]
       /\ UNCHANGED <<cfg, pc, uiRunning, quitPending>>

NextCapture ==
  \/ CaptureTick
  \/ PaneChange
  \/ PaneStart
  \/ KillOutside

SpecCapture == InitCapture /\ [][NextCapture]_vars

\* a tick whose capture-pane succeeded on the running session
Captured == lastOp'.kind = "tick" /\ lastOp'.captured /\ lastOp'.outcome = "ok"

\* C25: the update that first sees the pane differ from last_capture does
\* not commit it: last_capture stays, last_activity is not set to now, and
\* the value returned is the classification by the last activity so far
DifferenceWaitsForConfirmation ==
  [][(/\ Captured
      /\ m.activity[Watched].lastCapture # 0
      /\ m.activity[Watched].lastCapture # tmux.pane[Watched]) =>
       /\ m'.activity[Watched].lastCapture = m.activity[Watched].lastCapture
       /\ m'.activity[Watched].idleFor # 0
       /\ lastOp'.active = (m'.activity[Watched].idleFor < IdleTimeout)]_vars

\* C26: the first capture of a wrapper seeds last_capture with the pane and
\* returns idle, whichever content the pane shows
FirstCaptureSeedsIdle ==
  [][(Captured /\ m.activity[Watched].lastCapture = 0) =>
       /\ m'.activity[Watched].lastCapture = tmux.pane[Watched]
       /\ ~lastOp'.active]_vars

\* C27: a failed capture leaves last_capture and last_activity as they were
\* and returns the classification by the last activity, and the tick one
\* second after it runs no capture-pane
CaptureFailureDefersPoll ==
  [][/\ (lastOp'.kind = "tick" /\ lastOp'.captured /\ lastOp'.outcome = "fail") =>
          /\ m'.activity[Watched].lastCapture = m.activity[Watched].lastCapture
          /\ m'.activity[Watched].idleFor = Later(m.activity[Watched].idleFor)
          /\ lastOp'.active = (m'.activity[Watched].idleFor < IdleTimeout)
     /\ (/\ lastOp.kind = "tick" /\ lastOp.captured /\ lastOp.outcome = "fail"
         /\ lastOp'.kind = "tick") => ~lastOp'.captured]_vars

\* C28: a key of kill-tool mode or of the kill picker that stopped a session
\* leaves it out of the known sessions unless the configuration names it,
\* without a binding, and the mode home
KillRemovesFromRegistry ==
  [][(lastOp'.kind = "key" /\ lastOp'.from \in {"modeKillTool", "modePickKill"}) =>
       \A n \in tmux.live \ tmux'.live :
         <<"kill", n>> \in log'.cmds =>
           /\ n \in m'.sessions => n \in AllSessions(cfg)
           /\ n \notin DOMAIN m'.bindings
           /\ m'.mode = "modeHome"]_vars

\* ---- SpecFailures: the supervisor of Spec with the input of every key
\* event on record
InitFailures == InitWith({DefaultConfig}, TmuxStates(LifecycleNames, Dirs), {TRUE})

FailureKey ==
  \E key \in LifecycleKeys :
    \E in \in Inputs({0}, {DefaultIn.lookup}) : SeenKeyEvent(key, in)

NextFailures ==
  \/ FailureKey
  \/ UITick
  \/ UISync
  \/ MainLoop
  \/ KillOutside

SpecFailures == InitFailures /\ [][NextFailures]_vars

\* the key event ran a new-session that failed, at once or in a later step
CreateFailed ==
  /\ lastOp'.kind = "key"
  /\ \E n \in Names : /\ <<"create", n>> \in log'.cmds
                      /\ lastOp'.in.create # "ok" \/ n \in tmux.live

\* the key event ran a kill-session that failed
KillFailed ==
  /\ lastOp'.kind = "key"
  /\ \E n \in Names : /\ <<"kill", n>> \in log'.cmds
                      /\ lastOp'.in.kill # "ok" \/ n \notin tmux.live

FailureNotices ==
  {"failed to create %s: %v", "failed to start %s: %v", "failed to stop %s: %v"}

LateKey ==
  \E key \in LifecycleKeys :
    \E in \in Inputs({0}, {DefaultIn.lookup}) : KeyEvent(key, in)

LateTick == uiRunning /\ Tick

NextLate ==
  \/ LateKey
  \/ LateTick
  \/ MainLoop
  \/ KillOutside

SpecLate == Init /\ [][NextLate]_vars

\* C31: from the key event that set the attach request to the end of the
\* UI no message is handled that changes the request: it stays set and
\* names the same session
RequestKeptUntilExit ==
  [][(uiRunning /\ quitPending /\ m.shouldAttach) =>
       /\ m'.shouldAttach
       /\ m'.sessionToAttach = m.sessionToAttach]_vars

\* C32: esc in dir-jump mode returns to home with the query empty and the
\* selection at 0, and leaves the working directory alone
EscClearsDirJump ==
  [][(lastOp'.kind = "key" /\ lastOp'.key = "esc" /\ m.mode = "modeDirJump") =>
       /\ m'.mode = "modeHome"
       /\ m'.dirQuery = <<>>
       /\ m'.dirSelection = 0
       /\ cwd' = cwd]_vars

\* the draft of the rename input fails the validation of enter: empty, a
\* character outside the charset, the current name, or a name the adapter
\* or the registry has
DraftRejected(w) ==
  \/ w.m.renameInput = NoName
  \/ w.m.renameInput \in InvalidNames
  \/ w.m.renameInput = w.m.renameTarget
  \/ w.m.renameInput \in w.tmux.live \cup w.m.sessions

\* C33: enter in rename-input mode on a draft that fails the validation runs
\* no rename, leaves the sessions, the tool mapping, the bindings and the
\* adapter as the reconciliation of the key event had them, sets a notice
\* and stays in rename-input mode
RejectedDraftKeepsInput ==
  [][\A w \in {syncRegistry(World)} :
       (/\ lastOp'.kind = "key" /\ lastOp'.key = "enter"
        /\ m.mode = "modeRenameInput"
        /\ DraftRejected(w)) =>
         /\ log'.cmds = {}
         /\ tmux' = w.tmux
         /\ m'.sessions = w.m.sessions
         /\ m'.sessionTools = w.m.sessionTools
         /\ m'.bindings = w.m.bindings
         /\ m'.homeNotice # ""
         /\ m'.mode = "modeRenameInput"
         /\ m'.renameTarget = m.renameTarget
         /\ m'.renameInput = m.renameInput]_vars

\* enter on the draft focus while focus is running under its own name
RejectedDraftKeepsInputWitness ==
  /\ lastOp.kind = "key"
  /\ lastOp.key = "enter"
  /\ m.mode = "modeRenameInput"
  /\ m.renameTarget = <<"codex", 0>>
  /\ m.renameInput = Focus
  /\ Focus \in tmux.live
  /\ m.homeNotice = "session %s already exists"

\* ---- SpecDescend: collectDescendantTasks on one process table.  The table
\* has the pids 1..n with any parents in 0..n (cycles and self-parents
\* included); order is the order in which the map of the processes is
\* ranged over, rootPIDs the pids of the panes.
childrenIn(ppid, order, parent) == SelectSeq(order, LAMBDA p : ppid[p] = parent)

\* sort.Slice by PID of a slice of tasks: insertion into the sorted tail
RECURSIVE sortTasks(_)
sortTasks(tasks) ==
  IF tasks = <<>> THEN <<>>
  ELSE \* rest is bound so that it is sorted once
       CHOOSE r \in {SelectSeq(rest, LAMBDA t : t.PID < Head(tasks).PID)
                       \o <<Head(tasks)>>
                       \o SelectSeq(rest, LAMBDA t : t.PID >= Head(tasks).PID) :
                     rest \in {sortTasks(Tail(tasks))}} : TRUE

\* the loop over the queue: the children not seen yet are marked, queued
\* and, unless they are in skip, appended to the tasks
RECURSIVE collectLoop(_, _, _, _, _, _)
collectLoop(queue, seen, tasks, ppid, order, skip) ==
  IF queue = <<>> THEN tasks
  ELSE LET fresh == SelectSeq(childrenIn(ppid, order, Head(queue)),
                              LAMBDA p : p \notin seen)
           kept == SelectSeq(fresh, LAMBDA p : p \notin skip)
       IN collectLoop(Tail(queue) \o fresh, seen \cup Range(fresh),
                      tasks \o [i \in 1..Len(kept) |->
                                 [PID |-> kept[i], PPID |-> ppid[kept[i]]]],
                      ppid, order, skip)

\* the descendants with the panes that are children of other panes left in
collectDescendantTasksWithRoots(rootPIDs, ppid, order) ==
  sortTasks(collectLoop(rootPIDs, {}, <<>>, ppid, order, {}))

collectDescendantTasks(rootPIDs, ppid, order) ==
  sortTasks(collectLoop(rootPIDs, {}, <<>>, ppid, order, Range(rootPIDs)))

Ascending(n) == [i \in 1..n |-> i]

Descending(n) == [i \in 1..n |-> n + 1 - i]

\* the pids of up to two panes; 0 is a pane whose process is not in the table
RootLists(n) ==
  {<<>>} \cup {<<a>> : a \in 0..n} \cup {<<a, b>> : a \in 0..n, b \in 0..n}

InitDescend ==
  /\ cfg = DefaultConfig
  /\ tmux = [live |-> {}, cwdOpt |-> [n \in {} |-> ""]]
  /\ m = initialModel(cfg, {}, TRUE)
  /\ cwd = "/a"
  /\ log = [cmds |-> {}, signals |-> <<>>]
  /\ \E n \in 0..MaxProcs : \E ppid \in [1..n -> 0..n] :
       \E order \in {Ascending(n), Descending(n)} : \E rootPIDs \in RootLists(n) :
         lastOp = [kind |-> "processes", key |-> "", from |-> "modeHome", dir |-> "",
                   prev |-> {}, ppid |-> ppid, order |-> order, rootPIDs |-> rootPIDs]
  /\ pc = "run"
  /\ uiRunning = TRUE
  /\ quitPending = FALSE
  /\ attached = NoName

\* SessionTasks: the descendants of the panes of a session
CollectTasks ==
  /\ lastOp.kind = "processes"
  /\ lastOp' = [lastOp EXCEPT !.kind = "descendants"] @@
                [out |-> collectDescendantTasks(lastOp.rootPIDs, lastOp.ppid, lastOp.order)]
  /\ UNCHANGED <<cfg, m, tmux, cwd, log, pc, uiRunning, quitPending, attached>>

NextDescend ==
  \/ CollectTasks

SpecDescend == InitDescend /\ [][NextDescend]_vars

\* the processes with a pane among their ancestors
ReachableFrom(roots, ppid) ==
  {p \in DOMAIN ppid : \E k \in 1..Len(ppid) : Up(ppid, p, k) \in roots}

\* C34: collectDescendantTasks returns the processes that have a pane pid
\* among their ancestors, without the pane pids, each with its parent, in
\* strictly ascending order of pid (so none twice), for every table of
\* parents, cyclic ones included
CollectsDescendants ==
  lastOp.kind = "descendants" =>
    LET out == lastOp.out
    IN /\ {out[i].PID : i \in DOMAIN out} =
            ReachableFrom(Range(lastOp.rootPIDs), lastOp.ppid) \ Range(lastOp.rootPIDs)
       /\ \A i \in DOMAIN out : out[i].PPID = lastOp.ppid[out[i].PID]
       /\ \A i \in DOMAIN out : \A j \in DOMAIN out : i < j => out[i].PID < out[j].PID

\* panes 1 and 2 parent each other, 3 is a child of 2: the cycle ends, 3 is
\* the one task
CollectsDescendantsWitness ==
  /\ lastOp.kind = "descendants"
  /\ lastOp.ppid = <<2, 1, 2>>
  /\ lastOp.rootPIDs = <<1, 2>>
  /\ lastOp.out = <<[PID |-> 3, PPID |-> 2]>>

\* ---- SpecSocket: the tmux commands of one pb process and the socket each
\* is sent to.  tmux.env holds PB_LEVEL, tmux.sockets the sessions of each
\* server socket.
Socket == SocketOf("")

\* tmux.cmd: every command of the adapter goes to -L Socket
cmd(env, args) == [socket |-> Socket, args |-> args]

\* handleSubcommand, sessions and kill-all: the socket of the nesting level
subcommandSocket(env) ==
  IF Getenv(env) # "" THEN SocketOf(Getenv(env)) ELSE SocketOf("")

InitSocket ==
  /\ cfg = DefaultConfig
  /\ \E env \in Envs : \E sockets \in [{SocketOf(l) : l \in Levels} -> SUBSET SocketNames] :
       tmux = [live |-> {}, cwdOpt |-> [n \in {} |-> ""], env |-> env, sockets |-> sockets]
  /\ m = initialModel(cfg, {}, TRUE)
  /\ cwd = "/a"
  /\ log = [cmds |-> {}, signals |-> <<>>]
  /\ lastOp = [kind |-> "init", key |-> "", from |-> "modeHome", dir |-> "", prev |-> {}]
  /\ pc = "run"
  /\ uiRunning = TRUE
  /\ quitPending = FALSE
  /\ attached = NoName

\* a command of the supervisor: CreateSession, KillSession, SessionExists,
\* AttachSession
AdapterCommand ==
  \E op \in {"new-session", "kill-session", "has-session", "attach-session"} :
    \E name \in SocketNames :
      LET c == cmd(tmux.env, <<op, name>>)
      IN /\ tmux' = [tmux EXCEPT !.sockets[c.socket] =
                       CASE op = "new-session" -> @ \cup {name}
                         [] op = "kill-session" -> @ \ {name}
                         [] OTHER -> @]
         /\ lastOp' = [kind |-> "tmux", key |-> op, from |-> m.mode, dir |-> "",
                       prev |-> {name}, level |-> Getenv(tmux.env), socket |-> c.socket]
         /\ UNCHANGED <<cfg, m, cwd, log, pc, uiRunning, quitPending, attached>>

\* pb sessions and pb kill-all
Subcommand ==
  \E op \in {"list-sessions", "kill-server"} :
    LET socket == subcommandSocket(tmux.env)
    IN /\ tmux' = [tmux EXCEPT !.sockets[socket] = IF op = "kill-server" THEN {} ELSE @]
       /\ lastOp' = [kind |-> "tmux", key |-> op, from |-> m.mode, dir |-> "",
                     prev |-> {}, level |-> Getenv(tmux.env), socket |-> socket]
       /\ UNCHANGED <<cfg, m, cwd, log, pc, uiRunning, quitPending, attached>>

NextSocket ==
  \/ AdapterCommand
  \/ Subcommand

SpecSocket == InitSocket /\ [][NextSocket]_vars

\* C35: a tmux command issued at nesting level N goes to the socket
\* pocketbot when PB_LEVEL is unset or empty and to pocketbot-N otherwise
SocketPerLevel ==
  lastOp.kind = "tmux" => lastOp.socket = SocketOf(lastOp.level)

\* C36: a key of the attach picker, and a tool key at home while exactly
\* one session of the tool is running, run no new-session
AttachNeverCreates ==
  [][(/\ lastOp'.kind = "key"
      /\ \/ m.mode = "modePickAttach"
         \/ /\ m.mode = "modeHome"
            /\ ToolOfDefaultKey(lastOp'.key) # ""
            /\ Len(runningToolSessions(World, ToolOfDefaultKey(lastOp'.key))) = 1) =>
       \A n \in Names : <<"create", n>> \notin log'.cmds]_vars

\* C37: a tool key at home or in new-tool mode runs new-session only under
\* a name that no live session has
CreatesUnderFreeName ==
  [][(/\ lastOp'.kind = "key"
      /\ m.mode \in {"modeHome", "modeNewTool"}
      /\ ToolOfDefaultKey(lastOp'.key) # "") =>
       \A n \in Names : <<"create", n>> \in log'.cmds => n \notin tmux.live]_vars

\* ---- SpecSuggest: the suggestions of the directory jump and the selection
\* in them, under lookups that fail, find nothing, or list two or ten
\* directories
LongList == <<"/a", "/b", "/c", "/d", "/e", "/f", "/g", "/h", "/i", "/j">>

SuggestLookups ==
  {[err |-> TRUE, dirs |-> <<>>],
   [err |-> FALSE, dirs |-> <<>>],
   [err |-> FALSE, dirs |-> <<"/b", "/a">>],
   [err |-> FALSE, dirs |-> LongList]}

\* model.Update, tea.KeyMsg, with the answers of the lookup and of chdir kept
\* in lastOp
SuggestKeyEvent(key, in) ==
  /\ uiRunning
  /\ ~quitPending
  /\ LET w == updateHome(World, key, in)
     IN /\ InBounds(w)
        /\ Apply(w)
        /\ quitPending' = w.quit
  /\ lastOp' = [kind |-> "key", key |-> key, from |-> m.mode, dir |-> "",
                prev |-> {}, lookup |-> in.lookup, chdir |-> in.chdir]
  /\ UNCHANGED <<cfg, pc, uiRunning>>

SuggestKey ==
  \E key \in CASE m.mode = "modeDirJump" ->
                    {"1", "enter", "up", "down", "backspace", "esc"}
               [] OTHER -> {"z"} :
    \E l \in SuggestLookups : \E c \in BOOLEAN :
      SuggestKeyEvent(key, [DefaultIn EXCEPT !.lookup = l, !.chdir = c])

NextSuggest ==
  \/ SuggestKey
  \/ UITick
  \/ RunUI

SpecSuggest == InitDirJump /\ [][NextSuggest]_vars

\* C38: the suggestions are never more than nine; while there are any the
\* selection is an index into them; an enter in dir-jump mode whose chdir
\* succeeds moves to the selected entry of the list shown, or, with no list
\* shown, to the first entry of the list the lookup then returns, and an
\* enter changes the directory in no other way
SelectionWithinSuggestions ==
  /\ [](/\ Len(m.dirSuggestions) <= maxSuggestions
        /\ Len(m.dirSuggestions) > 0 =>
             (0 <= m.dirSelection /\ m.dirSelection < Len(m.dirSuggestions)))
  /\ [][(lastOp'.kind = "key" /\ m.mode = "modeDirJump" /\ lastOp'.key = "enter") =>
          LET shown == IF Len(m.dirSuggestions) > 0 THEN m.dirSuggestions
                       ELSE IF lastOp'.lookup.err THEN <<>>
                       ELSE SubSeqTo(lastOp'.lookup.dirs, maxSuggestions)
          IN IF Len(shown) > 0 /\ lastOp'.chdir
               THEN /\ cwd' = shown[m.dirSelection + 1]
                    /\ m'.mode = "modeHome"
               ELSE /\ cwd' = cwd
                    /\ m'.mode = "modeDirJump"]_vars

\* enter on the ninth of nine suggestions, reached from the first by up: the
\* ten directories of the lookup were cut to nine and the last of them is
\* the working directory
SelectionWithinSuggestionsWitness ==
  /\ lastOp.kind = "key"
  /\ lastOp.from = "modeDirJump"
  /\ lastOp.key = "enter"
  /\ lastOp.chdir
  /\ cwd = "/i"
  /\ m.mode = "modeHome"

\* C39: the loop of main ends with status 0 only from a UI that returned
\* without a request to attach, and with status 1 only from a UI that
\* failed; an attach, however it ends, and a request for a session that is
\* not running lead back to the top of the loop, and the UI started there
\* is in home mode with no request pending
LoopReturnsToHome ==
  [][/\ pc' = "exit0" /\ pc # "exit0" =>
          /\ pc = "returned"
          /\ ~m.shouldAttach \/ m.sessionToAttach = NoName
     /\ pc' = "exit1" /\ pc # "exit1" => pc = "run"
     /\ pc = "attached" => pc' \in {"attached", "loop"}
     /\ (pc = "returned" /\ m.shouldAttach /\ m.sessionToAttach # NoName) =>
          pc' \in {"returned", "attached", "loop"}
     /\ pc = "loop" /\ pc' = "run" =>
          /\ uiRunning'
          /\ m'.mode = "modeHome"
          /\ ~m'.shouldAttach]_vars

\* ---- SpecManager: session.Manager under every interleaving of Start, Stop,
\* IsRunning, the exit of a process and the goroutines that watch for it.
\* Here m is the Manager: cmd and pty name the process of the last
\* exec.Command (0 for nil), procs holds for every command made so far
\* whether its process was never started, is alive or has exited, and
\* watchers holds one goroutine for every successful Start.  Start, Stop and
\* IsRunning hold m.mu from the first statement to the last and call nothing
\* that blocks, so each is one step; the goroutine takes m.mu only for its
\* last two statements.
MaxStarts == 3

InitManager ==
  /\ cfg = DefaultConfig
  /\ tmux = [live |-> {}, cwdOpt |-> << >>]
  /\ cwd = "/a"
  /\ log = [cmds |-> {}, signals |-> <<>>]
  /\ pc = "manager"
  /\ uiRunning = FALSE
  /\ quitPending = FALSE
  /\ attached = NoName
  /\ m = [cmd |-> 0, pty |-> 0, running |-> FALSE, procs |-> <<>>, watchers |-> <<>>]
  /\ lastOp = [kind |-> "new", key |-> "", from |-> "", dir |-> "", prev |-> {},
               err |-> FALSE, result |-> FALSE]

ManagerOp(kind, err, result) ==
  [kind |-> kind, key |-> "", from |-> "", dir |-> "", prev |-> {},
   err |-> err, result |-> result]

\* Manager.Start; started is the answer of pty.Start
Start(started) ==
  /\ IF m.running
       THEN /\ m' = m
            /\ lastOp' = ManagerOp("start", TRUE, FALSE)
     ELSE /\ Len(m.procs) < MaxStarts
          /\ LET id == Len(m.procs) + 1
             IN IF ~started
                  THEN /\ m' = [m EXCEPT !.cmd = id, !.procs = Append(@, "unstarted")]
                       /\ lastOp' = ManagerOp("start", TRUE, FALSE)
                ELSE /\ m' = [m EXCEPT !.cmd = id,
                                       !.pty = id,
                                       !.running = TRUE,
                                       !.procs = Append(@, "alive"),
                                       !.watchers = Append(@, [pc |-> "go", cmd |-> 0])]
                     /\ lastOp' = ManagerOp("start", FALSE, FALSE)
  /\ UNCHANGED <<cfg, tmux, cwd, log, pc, uiRunning, quitPending, attached>>

\* os.Process.Kill answers "process already finished" once a Wait has
\* collected the process
Waited(id) ==
  \E i \in DOMAIN m.watchers :
    m.watchers[i].cmd = id /\ m.watchers[i].pc \in {"woken", "done"}

\* Manager.Stop
Stop ==
  /\ IF ~m.running
       THEN /\ m' = m
            /\ lastOp' = ManagerOp("stop", FALSE, FALSE)
     ELSE IF Waited(m.cmd)
       THEN /\ m' = m
            /\ lastOp' = ManagerOp("stop", TRUE, FALSE)
     ELSE /\ m' = [m EXCEPT !.procs[m.cmd] = "exited", !.running = FALSE]
          /\ lastOp' = ManagerOp("stop", FALSE, FALSE)
  /\ UNCHANGED <<cfg, tmux, cwd, log, pc, uiRunning, quitPending, attached>>

\* Manager.IsRunning
IsRunningCall ==
  /\ lastOp' = ManagerOp("is-running", FALSE, m.running)
  /\ UNCHANGED <<cfg, m, tmux, cwd, log, pc, uiRunning, quitPending, attached>>

\* the process of a command ends by itself
ProcessExit ==
  \E id \in DOMAIN m.procs :
    /\ m.procs[id] = "alive"
    /\ m' = [m EXCEPT !.procs[id] = "exited"]
    /\ lastOp' = ManagerOp("exit", FALSE, FALSE)
    /\ UNCHANGED <<cfg, tmux, cwd, log, pc, uiRunning, quitPending, attached>>

\* the goroutine evaluates m.cmd, without the lock, and enters Wait: it gets
\* the command of its own Start or of a later one
WatcherWait ==
  \E i \in DOMAIN m.watchers :
    /\ m.watchers[i].pc = "go"
    /\ m' = [m EXCEPT !.watchers[i] = [pc |-> "wait", cmd |-> m.cmd]]
    /\ lastOp' = ManagerOp("watch-wait", FALSE, FALSE)
    /\ UNCHANGED <<cfg, tmux, cwd, log, pc, uiRunning, quitPending, attached>>

\* Wait returns: the process has exited, or the command was never started
WatcherWake ==
  \E i \in DOMAIN m.watchers :
    /\ m.watchers[i].pc = "wait"
    /\ m.procs[m.watchers[i].cmd] # "alive"
    /\ m' = [m EXCEPT !.watchers[i].pc = "woken"]
    /\ lastOp' = ManagerOp("watch-wake", FALSE, FALSE)
    /\ UNCHANGED <<cfg, tmux, cwd, log, pc, uiRunning, quitPending, attached>>

\* m.mu.Lock(); m.running = false; m.mu.Unlock()
WatcherMark ==
  \E i \in DOMAIN m.watchers :
    /\ m.watchers[i].pc = "woken"
    /\ m' = [m EXCEPT !.watchers[i].pc = "done", !.running = FALSE]
    /\ lastOp' = ManagerOp("watch-mark", FALSE, FALSE)
    /\ UNCHANGED <<cfg, tmux, cwd, log, pc, uiRunning, quitPending, attached>>

StartCall == \E started \in BOOLEAN : Start(started)

NextManager ==
  \/ StartCall
  \/ Stop
  \/ IsRunningCall
  \/ ProcessExit
  \/ WatcherWait
  \/ WatcherWake
  \/ WatcherMark

SpecManager == InitManager /\ [][NextManager]_vars

\* C40: running goes from true to false only in a Stop or when the process
\* of the last successful Start is no longer alive: no goroutine of an
\* earlier Start marks the manager stopped while the newer process runs
RunningUntilExitOrStop ==
  [][(m.running /\ ~m'.running) =>
       \/ lastOp'.kind = "stop"
       \/ m.procs[m.cmd] # "alive"]_vars

====
